---- MODULE Spec2Model ----
(***************************************************************************)
(* A model of the event collection pipeline of uniswap_relay: the         *)
(* orchestrator (SwapEventCollector), its two detached poller tasks, the  *)
(* retried fetch -> normalize -> publish cycle, the raw-record normalizer *)
(* with the SwapEventBuilder, the subgraph client's error classification, *)
(* the Redis publisher's batch publish, the MetricsCollector and the      *)
(* ExponentialBackoff helper.                                              *)
(*                                                                         *)
(* Strings are sequences of one-character strings, JSON values are tagged *)
(* records, Option is [t |-> "none"] or [t |-> "some", v |-> x].          *)
(* SwapEvent.timestamp (Utc::now() at build time) is not modelled.        *)
(***************************************************************************)
EXTENDS Integers, Sequences, FiniteSets, TLC

\* ------------------------------------------------------------------ bounds

\* Largest retry.max_attempts a configuration is drawn with.
MaxAttempts == 3
\* Largest number of raw records in one fetched batch.
MaxBatch == 2
\* Cycles one poller task may start.
MaxCycles == 2
\* Calls of start_collecting that spawn tasks (task generations).
MaxStarts == 2
\* Calls of next_delay made on one backoff controller.
MaxCalls == 7
\* Calls of reset made on one backoff controller.
MaxResets == 2
\* Distinct readings of the clock.
MaxNow == 2
MaxTime == 2
MaxRecordings == 3

\* -------------------------------------------------------- program constants

\* Length of a Solana-style public key rejected by parse_v2_swap_event.
SolanaKeyLen == 44
\* Default decimals of a token whose "decimals" is absent or not a number.
DefaultDecimals == 18
\* std::time::Duration keeps nanoseconds: one millisecond is this many.
NanosPerMilli == 1000 * 1000

\* ------------------------------------------------------------------ strings

Digits == {"0", "1", "2", "3", "4", "5", "6", "7", "8", "9"}

Letters ==
  {"a", "b", "c", "d", "e", "f", "g", "h", "i", "j", "k", "l", "m", "n", "o",
   "p", "q", "r", "s", "t", "u", "v", "w", "x", "y", "z",
   "A", "B", "C", "D", "E", "F", "G", "H", "I", "J", "K", "L", "M", "N", "O",
   "P", "Q", "R", "S", "T", "U", "V", "W", "X", "Y", "Z"}

\* str::is_empty
is_empty(s) == Len(s) = 0

\* str::starts_with
starts_with(s, prefix) ==
  /\ Len(s) >= Len(prefix)
  /\ SubSeq(s, 1, Len(prefix)) = prefix

\* str::contains
contains(s, sub) ==
  \E i \in 1..(Len(s) + 1) :
    /\ i + Len(sub) - 1 <= Len(s)
    /\ SubSeq(s, i, i + Len(sub) - 1) = sub

\* An exponent letter let through.
is_numeric_sci(s) == \A i \in 1..Len(s) : s[i] \in Digits \cup {".", "e"}

\* A sign taken for a numeric character.
is_numeric_signed(s) == \A i \in 1..Len(s) : s[i] \in Digits \cup {".", "-"}

\* amount.chars().all(|c| c.is_ascii_digit() || c == '.')
is_numeric(s) == \A i \in 1..Len(s) : s[i] \in Digits \cup {"."}

\* id_str.len() == 44 && id_str.chars().all(|c| c.is_alphanumeric() || c == '_')
is_solana_key(s) ==
  /\ Len(s) = SolanaKeyLen
  /\ \A i \in 1..Len(s) : s[i] \in Digits \cup Letters \cup {"_"}

\* ------------------------------------------------------------- Option, JSON

None == [t |-> "none"]
Some(x) == [t |-> "some", v |-> x]

JNull == [t |-> "null"]
JStr(s) == [t |-> "str", s |-> s]
JNum(n) == [t |-> "num", n |-> n]
JObj(f) == [t |-> "obj", f |-> f]
JArr(a) == [t |-> "arr", a |-> a]

\* serde_json::Value::get(key): the member of an object, None otherwise.
Get(v, k) == IF v.t = "obj" /\ k \in DOMAIN v.f THEN Some(v.f[k]) ELSE None

\* .get(k).and_then(|v| v.as_str()).unwrap_or(default)
str_or(v, k, default) ==
  LET o == Get(v, k)
  IN IF o.t = "some" /\ o.v.t = "str" THEN o.v.s ELSE default

\* .get(k).and_then(|v| v.as_u64()).unwrap_or(18) as u8
decimals_of(v) ==
  LET o == Get(v, "decimals")
  IN IF o.t = "some" /\ o.v.t = "num" /\ o.v.n >= 0 THEN o.v.n % 256
     ELSE DefaultDecimals

\* .get(k).and_then(|v| v.as_str()).map(|v| v.to_string())
opt_str(v, k) ==
  LET o == Get(v, k)
  IN IF o.t = "some" /\ o.v.t = "str" THEN Some(o.v.s) ELSE None

\* ------------------------------------------------------------------- model

Sources == {"V2", "V3"}

\* The variant names, as Debug would print them.
version_display_debug(version) ==
  IF version = "V2" THEN <<"V", "2">> ELSE <<"V", "3">>

\* impl Display for UniswapVersion
version_display(version) ==
  IF version = "V2" THEN <<"v", "2">> ELSE <<"v", "3">>

\* SwapEventBuilder::default()
builder ==
  [version |-> None, transaction_hash |-> None, pool_address |-> None,
   token_in |-> None, token_out |-> None, amount_in |-> None,
   amount_out |-> None, user_address |-> None]

\* The builder's setters: each stores the value, whatever it warns about.
set_version(b, x) == [b EXCEPT !.version = Some(x)]
set_transaction_hash(b, x) == [b EXCEPT !.transaction_hash = Some(x)]
set_pool_address(b, x) == [b EXCEPT !.pool_address = Some(x)]
set_token_in(b, x) == [b EXCEPT !.token_in = Some(x)]
set_token_out(b, x) == [b EXCEPT !.token_out = Some(x)]
set_amount_in(b, x) == [b EXCEPT !.amount_in = Some(x)]
set_amount_out(b, x) == [b EXCEPT !.amount_out = Some(x)]
set_user_address(b, x) == [b EXCEPT !.user_address = Some(x)]

Ok(x) == [ok |-> TRUE, v |-> x]
Err(e) == [ok |-> FALSE, err |-> e]

\* The checks of build without the one of an empty transaction hash.
build_error_hash_unchecked(b) ==
  CASE b.version.t = "none" -> "Version is required for SwapEvent"
    [] b.transaction_hash.t = "none" -> "Transaction hash is required for SwapEvent"
    [] b.pool_address.t = "none" -> "Pool address is required for SwapEvent"
    [] b.token_in.t = "none" -> "Token in is required for SwapEvent"
    [] b.token_out.t = "none" -> "Token out is required for SwapEvent"
    [] b.amount_in.t = "none" -> "Amount in is required for SwapEvent"
    [] b.amount_out.t = "none" -> "Amount out is required for SwapEvent"
    [] b.user_address.t = "none" -> "User address is required for SwapEvent"
    [] is_empty(b.pool_address.v) -> "Pool address cannot be empty"
    [] is_empty(b.amount_in.v) \/ is_empty(b.amount_out.v) ->
         "Amount fields cannot be empty"
    [] is_empty(b.user_address.v) -> "User address cannot be empty"
    [] is_empty(b.token_in.v.address) \/ is_empty(b.token_out.v.address) ->
         "Token addresses cannot be empty"
    [] ~is_numeric(b.amount_in.v) -> "Amount in must be a valid numeric value"
    [] ~is_numeric(b.amount_out.v) -> "Amount out must be a valid numeric value"
    [] OTHER -> ""

\* The first failing check of SwapEventBuilder::build, "" when there is none.
build_error(b) ==
  CASE b.version.t = "none" -> "Version is required for SwapEvent"
    [] b.transaction_hash.t = "none" -> "Transaction hash is required for SwapEvent"
    [] b.pool_address.t = "none" -> "Pool address is required for SwapEvent"
    [] b.token_in.t = "none" -> "Token in is required for SwapEvent"
    [] b.token_out.t = "none" -> "Token out is required for SwapEvent"
    [] b.amount_in.t = "none" -> "Amount in is required for SwapEvent"
    [] b.amount_out.t = "none" -> "Amount out is required for SwapEvent"
    [] b.user_address.t = "none" -> "User address is required for SwapEvent"
    [] is_empty(b.transaction_hash.v) -> "Transaction hash cannot be empty"
    [] is_empty(b.pool_address.v) -> "Pool address cannot be empty"
    [] is_empty(b.amount_in.v) \/ is_empty(b.amount_out.v) ->
         "Amount fields cannot be empty"
    [] is_empty(b.user_address.v) -> "User address cannot be empty"
    [] is_empty(b.token_in.v.address) \/ is_empty(b.token_out.v.address) ->
         "Token addresses cannot be empty"
    [] ~is_numeric(b.amount_in.v) -> "Amount in must be a valid numeric value"
    [] ~is_numeric(b.amount_out.v) -> "Amount out must be a valid numeric value"
    [] OTHER -> ""

\* SwapEventBuilder::build
build(b) ==
  IF build_error(b) # "" THEN Err(build_error(b))
  ELSE Ok([id |-> version_display(b.version.v) \o <<"_">> \o b.transaction_hash.v,
           version |-> b.version.v,
           block_number |-> 0,
           transaction_hash |-> b.transaction_hash.v,
           pool_address |-> b.pool_address.v,
           token_in |-> b.token_in.v,
           token_out |-> b.token_out.v,
           amount_in |-> b.amount_in.v,
           amount_out |-> b.amount_out.v,
           amount_in_usd |-> None, amount_out_usd |-> None,
           fee_amount |-> None, fee_usd |-> None,
           user_address |-> b.user_address.v,
           gas_used |-> None, gas_price |-> None, gas_cost_usd |-> None,
           pool_info |-> None, enriched_data |-> None])

\* The pool address rewritten along with the pool information.
add_pool_info_rewrite(event, pool_info) ==
  [event EXCEPT !.pool_info = Some(pool_info), !.pool_address = pool_info.address]

\* SwapEvent::add_pool_info
add_pool_info(event, pool_info) == [event EXCEPT !.pool_info = Some(pool_info)]

\* SwapEvent::add_enriched_data
add_enriched_data(event, enriched_data) ==
  [event EXCEPT !.enriched_data = Some(enriched_data)]

\* SwapEvent::set_block_info
set_block_info(event, block_number, timestamp) ==
  [event EXCEPT !.block_number = block_number, !.timestamp = timestamp]

\* SwapEvent::set_gas_info
set_gas_info(event, gas_used, gas_price, gas_cost_usd) ==
  [event EXCEPT !.gas_used = Some(gas_used), !.gas_price = Some(gas_price),
                !.gas_cost_usd = Some(gas_cost_usd)]

\* SwapEvent::set_usd_amounts
set_usd_amounts(event, amount_in_usd, amount_out_usd) ==
  [event EXCEPT !.amount_in_usd = Some(amount_in_usd),
                !.amount_out_usd = Some(amount_out_usd)]

\* SwapEvent::set_fee_info
set_fee_info(event, fee_amount, fee_usd) ==
  [event EXCEPT !.fee_amount = Some(fee_amount), !.fee_usd = Some(fee_usd)]

\* timestamp: Utc::now() of SwapEvent::new and of build: the event with the
\* clock reading `now` as its timestamp.
with_timestamp(event, now) == [timestamp |-> now] @@ event

\* The clock reading written into the identifier as well.
stamped_id(result, now) ==
  IF result.ok
  THEN Ok(with_timestamp([result.v EXCEPT !.id = @ \o <<"_", ToString(now)>>], now))
  ELSE result

\* A Result<SwapEvent, _> whose event was constructed at `now`.
stamped(result, now) ==
  IF result.ok THEN Ok(with_timestamp(result.v, now)) ELSE result

\* TokenInfo built from a token sub-object (parse_v2_swap_event, parse_v3_swap_event)
token_info(tok) ==
  [address |-> str_or(tok, "id", <<>>),
   symbol |-> str_or(tok, "symbol", <<>>),
   name |-> str_or(tok, "name", <<>>),
   decimals |-> decimals_of(tok),
   logo_uri |-> None, price_usd |-> None, market_cap |-> None]

\* SwapEventCollector::extract_pool_info
extract_pool_info(pool_data) ==
  LET token0 == Get(pool_data, "token0")
      token1 == Get(pool_data, "token1")
      address == opt_str(pool_data, "id")
      fee == Get(pool_data, "fee_tier")
  IN IF token0.t = "none" \/ token1.t = "none" \/ address.t = "none"
        \/ opt_str(token0.v, "id").t = "none"
        \/ opt_str(token1.v, "id").t = "none"
     THEN None
     ELSE Some([address |-> address.v,
                token0 |-> opt_str(token0.v, "id").v,
                token1 |-> opt_str(token1.v, "id").v,
                fee_tier |-> IF fee.t = "some" /\ fee.v.t = "num" /\ fee.v.n >= 0
                             THEN Some(fee.v.n) ELSE None,
                liquidity |-> opt_str(pool_data, "liquidity"),
                volume_24h |-> opt_str(pool_data, "volume_usd"),
                fees_24h |-> opt_str(pool_data, "fees_usd"),
                apy |-> None, created_at |-> None])

\* The "instruction" check that opens both parse functions.
has_solana_instruction(swap_data) ==
  LET o == Get(swap_data, "instruction")
  IN /\ o.t = "some"
     /\ contains(IF o.v.t = "str" THEN o.v.s ELSE <<>>,
                 <<"s", "o", "l", "a", "n", "a">>)

\* The Solana-style public key check parse_v2_swap_event makes on a token.
has_solana_token_id(tok) ==
  LET o == Get(tok, "id")
  IN o.t = "some" /\ o.v.t = "str" /\ is_solana_key(o.v.s)

\* The tail of both parse functions: builder.build().map_err(..)?, then
\* add_pool_info when extract_pool_info found the pool.
with_pool_info(built, info) ==
  IF ~built.ok THEN Err("SwapEvent builder failed")
  ELSE IF info.t = "some" THEN Ok(add_pool_info(built.v, info.v))
  ELSE Ok(built.v)

\* The builder chain and the pool information shared by both parse functions.
build_swap_event(version, swap_data, pool, token0, token1, key_in, key_out) ==
  LET b == set_user_address(
             set_amount_out(
               set_amount_in(
                 set_token_out(
                   set_token_in(
                     set_pool_address(
                       set_transaction_hash(
                         set_version(builder, version),
                         str_or(swap_data, "id", <<>>)),
                       str_or(pool, "id", <<>>)),
                     token_info(token0)),
                   token_info(token1)),
                 str_or(swap_data, key_in, <<"0">>)),
               str_or(swap_data, key_out, <<"0">>)),
             str_or(swap_data, "sender", <<>>))
  IN with_pool_info(build(b), extract_pool_info(pool))

\* SwapEventCollector::parse_v2_swap_event
parse_v2_swap_event(swap_data) ==
  LET pair == Get(swap_data, "pair")
      token0 == IF pair.t = "some" THEN Get(pair.v, "token0") ELSE None
      token1 == IF pair.t = "some" THEN Get(pair.v, "token1") ELSE None
  IN CASE has_solana_instruction(swap_data) ->
            Err("Solana instruction data found in Ethereum V2 swap event")
       [] pair.t = "none" -> Err("Missing pair data")
       [] token0.t = "none" -> Err("Missing token0 data")
       [] has_solana_token_id(token0.v) ->
            Err("Solana-style public key found in Ethereum token0")
       [] token1.t = "none" -> Err("Missing token1 data")
       [] has_solana_token_id(token1.v) ->
            Err("Solana-style public key found in Ethereum token1")
       [] OTHER ->
            build_swap_event("V2", swap_data, pair.v, token0.v, token1.v,
                             "amount0_in", "amount1_out")

\* SwapEventCollector::parse_v3_swap_event
parse_v3_swap_event(swap_data) ==
  LET pool == Get(swap_data, "pool")
      token0 == IF pool.t = "some" THEN Get(pool.v, "token0") ELSE None
      token1 == IF pool.t = "some" THEN Get(pool.v, "token1") ELSE None
  IN CASE has_solana_instruction(swap_data) ->
            Err("Solana instruction data found in Ethereum V3 swap event")
       [] pool.t = "none" -> Err("Missing pool data")
       [] token0.t = "none" -> Err("Missing token0 data")
       [] token1.t = "none" -> Err("Missing token1 data")
       [] OTHER ->
            build_swap_event("V3", swap_data, pool.v, token0.v, token1.v,
                             "amount0", "amount1")

\* The parse function each poller applies to a raw record.
parse_swap_event(source, swap_data) ==
  IF source = "V2" THEN parse_v2_swap_event(swap_data)
  ELSE parse_v3_swap_event(swap_data)

\* The loop over swaps_array of collect_v2_events / collect_v3_events: a parsed
\* record is pushed, a failed one is logged and counted (record_error) and the
\* loop goes on with the next record.
\* The loop leaving at the first record that fails to parse.
push_or_count_break(r, rest) ==
  IF r.ok THEN [rest EXCEPT !.events = <<r.v>> \o @]
  ELSE [events |-> <<>>, errors |-> 1]

\* One turn of the loop: Ok(event) => events.push(event), Err(e) => warn and
\* record_error; `rest` is what the loop makes of the records that follow.
push_or_count(r, rest) ==
  IF r.ok THEN [rest EXCEPT !.events = <<r.v>> \o @]
  ELSE [rest EXCEPT !.errors = @ + 1]

RECURSIVE collect_swaps(_, _)
collect_swaps(source, swaps_array) ==
  IF swaps_array = <<>> THEN [events |-> <<>>, errors |-> 0]
  ELSE push_or_count(parse_swap_event(source, Head(swaps_array)),
                     collect_swaps(source, Tail(swaps_array)))

\* result.data -> data.get("swaps") -> swaps.as_array(): the batch of a
\* response, None when any of the three is missing.
swaps_array_of(result) ==
  IF result.data.t = "none" THEN None
  ELSE LET swaps == Get(result.data.v, "swaps")
       IN IF swaps.t = "some" /\ swaps.v.t = "arr" THEN Some(swaps.v.a) ELSE None

\* The errors array overlooked when the response has data.
query_subgraph_lenient(resp) ==
  CASE resp.net # "ok" -> Err("Http")
    [] ~resp.json_ok -> Err("Parsing")
    [] resp.errors.t = "some" /\ resp.errors.v # <<>> /\ resp.data.t = "none" ->
         Err("GraphQL")
    [] OTHER -> Ok([data |-> resp.data, errors |-> resp.errors])

\* SubgraphClient::query_subgraph on the upstream's answer: a transport
\* failure, a body that is no PoolQueryResult, a non-empty errors array, or the
\* result. (collect_v*_events re-wraps the error by its message text into a
\* Network, Solana or Ethereum DAppError; no control flow reads the variant.)
query_subgraph(resp) ==
  CASE resp.net # "ok" -> Err("Http")
    [] ~resp.json_ok -> Err("Parsing")
    [] resp.errors.t = "some" /\ resp.errors.v # <<>> -> Err("GraphQL")
    [] OTHER -> Ok([data |-> resp.data, errors |-> resp.errors])

\* ------------------------------------------------------------------ metrics

\* MetricsCollector::new
new_metrics == [events_processed |-> 0, events_dropped |-> 0, errors_total |-> 0]

\* MetricsCollector::record_error
record_error(m) == [m EXCEPT !.errors_total = @ + 1]

\* record_error called n times (once per record that failed to parse)
record_errors(m, n) == [m EXCEPT !.errors_total = @ + n]

\* A batch counted as one event.
record_events_processed_one(m, count) ==
  IF count > 0 THEN [m EXCEPT !.events_processed = @ + 1] ELSE m

\* MetricsCollector::record_events_processed
record_events_processed(m, count) ==
  IF count > 0 THEN [m EXCEPT !.events_processed = @ + count] ELSE m

\* MetricsCollector::record_events_dropped: more than 100 events dropped at
\* once are also recorded as an error.
record_events_dropped(m, count) ==
  IF count > 0
  THEN LET d == [m EXCEPT !.events_dropped = @ + count]
       IN IF count > 100 THEN record_error(d) ELSE d
  ELSE m

\* MetricsCollector::get_metrics: the two totals among the fields of Metrics.
get_metrics(m) ==
  [events_processed_total |-> m.events_processed, errors_total |-> m.errors_total]

\* impl Clone for MetricsCollector: fresh atomics holding the current values.
clone_metrics(m) ==
  [events_processed |-> m.events_processed,
   events_dropped |-> m.events_dropped,
   errors_total |-> m.errors_total]

\* ------------------------------------------------------------------ backoff

Min(a, b) == IF a < b THEN a ELSE b
Max(a, b) == IF a > b THEN a ELSE b

RECURSIVE Pow(_, _)
Pow(b, n) == IF n = 0 THEN 1 ELSE b * Pow(b, n - 1)

\* (delay as f64 * config.retry.backoff_multiplier) as u64, then
\* delay.min(config.retry.max_delay_ms): the inline backoff of the retry loops.
\* The multiplier is the rational num/den; the cast truncates.
next_retry_delay(cfg, delay) ==
  Min((delay * cfg.backoff_multiplier.num) \div cfg.backoff_multiplier.den,
      cfg.max_delay_ms)

\* initial_delay.mul_f64(multiplier.powi(n)) for an initial delay of whole
\* milliseconds, as whole milliseconds plus the nanoseconds beyond them
\* (Duration keeps seconds and nanoseconds apart in the same way);
\* Duration::mul_f64 truncates to whole nanoseconds.
mul_f64_powi(initial_delay_ms, multiplier, n) ==
  [ms |-> (initial_delay_ms * Pow(multiplier.num, n)) \div Pow(multiplier.den, n),
   ns |-> (((initial_delay_ms * Pow(multiplier.num, n)) % Pow(multiplier.den, n))
            * NanosPerMilli) \div Pow(multiplier.den, n)]

\* calculated_delay > self.max_delay
exceeds(calculated, max_delay_ms) ==
  \/ calculated.ms > max_delay_ms
  \/ calculated.ms = max_delay_ms /\ calculated.ns > 0

\* The delay of a later attempt: the calculated delay, capped.
capped_delay(calculated, max_delay_ms) ==
  IF exceeds(calculated, max_delay_ms)
  THEN Some(max_delay_ms * NanosPerMilli)
  ELSE Some(calculated.ms * NanosPerMilli + calculated.ns)

\* The exponent one short.
backoff_next_delay_short(cfg, current_attempt) ==
  IF current_attempt >= cfg.max_attempts THEN None
  ELSE IF current_attempt = 0 THEN Some(cfg.initial_delay_ms * NanosPerMilli)
  ELSE capped_delay(mul_f64_powi(cfg.initial_delay_ms, cfg.backoff_multiplier,
                                 current_attempt - 1),
                    cfg.max_delay_ms)

\* ExponentialBackoff::next_delay at current_attempt, for the backoff built from
\* the retry configuration; in nanoseconds, None when exhausted.
backoff_next_delay(cfg, current_attempt) ==
  IF current_attempt >= cfg.max_attempts THEN None
  ELSE IF current_attempt = 0 THEN Some(cfg.initial_delay_ms * NanosPerMilli)
  ELSE capped_delay(mul_f64_powi(cfg.initial_delay_ms, cfg.backoff_multiplier,
                                 current_attempt),
                    cfg.max_delay_ms)

\* ExponentialBackoff::new
backoff_new(cfg) == [cfg |-> cfg, current_attempt |-> 0]

\* ExponentialBackoff::current_attempt
current_attempt(b) == b.current_attempt

\* The comparison off by one.
exhausted_late(b) == b.current_attempt > b.cfg.max_attempts

\* ExponentialBackoff::exhausted
exhausted(b) == b.current_attempt >= b.cfg.max_attempts

\* The counter left where it is.
reset_keep(b) == b

\* ExponentialBackoff::reset
reset(b) == [b EXCEPT !.current_attempt = 0]

\* The counter moving on every call.
next_delay_counting(b) ==
  [ret |-> backoff_next_delay(b.cfg, b.current_attempt),
   b |-> [b EXCEPT !.current_attempt = b.current_attempt + 1]]

\* ExponentialBackoff::next_delay: the returned Option and the controller
\* after the call; the counter moves only when a delay is returned.
next_delay(b) ==
  [ret |-> backoff_next_delay(b.cfg, b.current_attempt),
   b |-> IF b.current_attempt >= b.cfg.max_attempts THEN b
         ELSE [b EXCEPT !.current_attempt = b.current_attempt + 1]]

\* The comparison off by one.
retry_exhausted_late(cfg, attempts) == attempts > cfg.max_attempts

\* The attempt count ends the retried cycle (attempts >= max_attempts).
retry_exhausted(cfg, attempts) == attempts >= cfg.max_attempts

\* The Err arm of collect_v2_events_with_retry / collect_v3_events_with_retry:
\* count the attempt, give up when exhausted, else back off and sleep.
retry_step(cfg, attempts, delay) ==
  IF retry_exhausted(cfg, attempts + 1)
  THEN [exhausted |-> TRUE, attempts |-> attempts + 1, delay |-> delay]
  ELSE [exhausted |-> FALSE, attempts |-> attempts + 1,
        delay |-> next_retry_delay(cfg, delay)]

\* ------------------------------------------------------ one cycle attempt

\* collect_v2_events / collect_v3_events from the upstream's answer up to the
\* point where publish_batch awaits the sink: the query, the loop over the
\* records, and publish_batch's serialization of the events (ser_ok: whether
\* serde_json::to_string succeeds on every event). errors is the number of
\* record_error calls the loop made.
\* A record that failed to parse failing the attempt.
after_loop_strict(arr, n, ser_ok) ==
  CASE n.errors > 0 ->
         [status |-> "err", kind |-> "Normalization", events |-> <<>>,
          errors |-> n.errors, raw |-> arr]
    [] n.errors = 0 /\ n.events = <<>> ->
         [status |-> "ok", kind |-> "", events |-> <<>>,
          errors |-> n.errors, raw |-> arr]
    [] n.errors = 0 /\ n.events # <<>> /\ ~ser_ok ->
         [status |-> "err", kind |-> "Serialization", events |-> <<>>,
          errors |-> n.errors, raw |-> arr]
    [] OTHER ->
         [status |-> "publishing", kind |-> "", events |-> n.events,
          errors |-> n.errors, raw |-> arr]

\* After the loop: nothing to publish is a success, events that do not
\* serialize fail publish_batch, anything else waits for the sink.
after_loop(arr, n, ser_ok) ==
  CASE n.events = <<>> ->
         [status |-> "ok", kind |-> "", events |-> <<>>,
          errors |-> n.errors, raw |-> arr]
    [] n.events # <<>> /\ ~ser_ok ->
         [status |-> "err", kind |-> "Serialization", events |-> <<>>,
          errors |-> n.errors, raw |-> arr]
    [] OTHER ->
         [status |-> "publishing", kind |-> "", events |-> n.events,
          errors |-> n.errors, raw |-> arr]

\* A response without a batch taken for a failed query.
after_query_required(source, arr, ser_ok) ==
  IF arr.t = "none"
  THEN [status |-> "err", kind |-> "Parsing", events |-> <<>>,
        errors |-> 0, raw |-> None]
  ELSE after_loop(arr, collect_swaps(source, arr.v), ser_ok)

\* if let Some(data) .. if let Some(swaps) .. if let Some(swaps_array): the
\* loop runs over the batch when there is one.
after_query(source, arr, ser_ok) ==
  after_loop(arr,
             IF arr.t = "some" THEN collect_swaps(source, arr.v)
             ELSE [events |-> <<>>, errors |-> 0],
             ser_ok)

\* `?` on the query's result.
after_response(source, q, ser_ok) ==
  IF ~q.ok
  THEN [status |-> "err", kind |-> q.err, events |-> <<>>,
        errors |-> 0, raw |-> None]
  ELSE after_query(source, swaps_array_of(q.v), ser_ok)

attempt_after_fetch(source, resp, ser_ok) ==
  after_response(source, query_subgraph(resp), ser_ok)

\* A sink that timed out taken for one that answered.
publish_result_lenient(sink) ==
  CASE sink \in {"ok", "timeout"} -> Ok("published")
    [] OTHER -> Err("RedisPublish")

\* publish_batch once the pipeline was sent: the sink's answer.
publish_result(sink) ==
  CASE sink = "ok" -> Ok("published")
    [] sink = "timeout" -> Err("RedisTimeout")
    [] OTHER -> Err("RedisPublish")

\* The spawned loop leaving on an error.
poller_after_cycle_exit(result) ==
  IF result = "err" THEN "stopped" ELSE "tick_wait"

\* The spawned loop after collect_v*_events_with_retry returned: an error is
\* logged and counted, and the loop waits for the next tick either way.
poller_after_cycle(result) == "tick_wait"

\* The error logged but not counted.
count_cycle_result_silent(m, result) == m

\* if let Err(e) = ... { error!(...); metrics_collector.record_error(); }
count_cycle_result(m, result) == IF result = "err" THEN record_error(m) ELSE m

\* A retry that keeps the fetched batch and goes straight to the sink.
attempt_entry_publish == "publishing"

\* The loop of collect_v*_events_with_retry calls collect_v*_events again:
\* every attempt starts with the query.
attempt_entry == "fetching"

\* ------------------------------------------------------------------ inputs

HashA == <<"0", "x", "a">>
HashB == <<"0", "x", "b">>
PoolAddr == <<"0", "x", "c">>
Token0Addr == <<"0", "x", "d">>
Token1Addr == <<"0", "x", "e">>
SenderAddr == <<"0", "x", "f">>
SolanaKey == [i \in 1..SolanaKeyLen |-> "S"]

RawToken(id, symbol) ==
  JObj([id |-> JStr(id), symbol |-> JStr(symbol), name |-> JStr(symbol),
        decimals |-> JNum(6)])

RawPool(token0_id) ==
  JObj([id |-> JStr(PoolAddr),
        token0 |-> RawToken(token0_id, <<"A">>),
        token1 |-> RawToken(Token1Addr, <<"B">>)])

\* A raw swap record of a source, whole.
RawSwap(source, hash, pool) ==
  IF source = "V2"
  THEN JObj([id |-> JStr(hash), pair |-> pool, sender |-> JStr(SenderAddr),
             amount0_in |-> JStr(<<"5">>), amount1_out |-> JStr(<<"7">>)])
  ELSE JObj([id |-> JStr(hash), pool |-> pool, sender |-> JStr(SenderAddr),
             amount0 |-> JStr(<<"5">>), amount1 |-> JStr(<<"7">>)])

\* Without its pair / pool.
RawNoPool(hash) == JObj([id |-> JStr(hash), sender |-> JStr(SenderAddr)])

\* Without its token1.
RawNoToken1(source, hash) ==
  RawSwap(source, hash,
          JObj([id |-> JStr(PoolAddr), token0 |-> RawToken(Token0Addr, <<"A">>)]))

\* Without its id: the transaction hash defaults to "".
RawNoId(source) ==
  IF source = "V2"
  THEN JObj([pair |-> RawPool(Token0Addr), sender |-> JStr(SenderAddr),
             amount0_in |-> JStr(<<"5">>), amount1_out |-> JStr(<<"7">>)])
  ELSE JObj([pool |-> RawPool(Token0Addr), sender |-> JStr(SenderAddr),
             amount0 |-> JStr(<<"5">>), amount1 |-> JStr(<<"7">>)])

\* Whole, but with an "instruction" member that names Solana.
RawSolanaInstruction(source) ==
  IF source = "V2"
  THEN JObj([id |-> JStr(HashB), pair |-> RawPool(Token0Addr),
             sender |-> JStr(SenderAddr), amount0_in |-> JStr(<<"5">>),
             amount1_out |-> JStr(<<"7">>),
             instruction |-> JStr(<<"s", "o", "l", "a", "n", "a">>)])
  ELSE JObj([id |-> JStr(HashB), pool |-> RawPool(Token0Addr),
             sender |-> JStr(SenderAddr), amount0 |-> JStr(<<"5">>),
             amount1 |-> JStr(<<"7">>),
             instruction |-> JStr(<<"s", "o", "l", "a", "n", "a">>)])

\* The raw records an upstream answers with.
SampleRecords(source) ==
  {RawSwap(source, HashA, RawPool(Token0Addr)),
   RawSwap(source, HashB, RawPool(Token0Addr)),
   RawNoPool(HashA),
   RawNoToken1(source, HashA),
   RawNoId(source),
   RawSwap(source, HashB, RawPool(SolanaKey)),
   RawSolanaInstruction(source)}

SeqsUpTo(S, n) == UNION {[1..k -> S] : k \in 0..n}

Answer(data, errors) ==
  [net |-> "ok", json_ok |-> TRUE, data |-> data, errors |-> errors]

\* Everything an upstream may answer.
FullResponses(source) ==
  {[net |-> n, json_ok |-> TRUE, data |-> None, errors |-> None] :
     n \in {"send_error", "status_error", "body_error"}}
  \cup {[net |-> "ok", json_ok |-> FALSE, data |-> None, errors |-> None]}
  \cup {Answer(Some(JObj([swaps |-> JArr(<<RawSwap(source, HashA, RawPool(Token0Addr))>>)])),
               Some(<<"query failed">>))}
  \cup {Answer(None, None), Answer(Some(JNull), Some(<<>>)),
        Answer(Some(JObj([other |-> JNull])), None),
        Answer(Some(JObj([swaps |-> JStr(<<"x">>)])), None)}
  \cup {Answer(Some(JObj([swaps |-> JArr(b)])), None) :
          b \in SeqsUpTo(SampleRecords(source), MaxBatch)}

\* Whether a response carries a non-empty errors array.
errors_of(resp) == resp.errors.t = "some" /\ resp.errors.v # <<>>

\* An upstream that answers one whole record.
HealthyResponses(source) ==
  {Answer(Some(JObj([swaps |-> JArr(<<RawSwap(source, HashA, RawPool(Token0Addr))>>)])),
          None)}

\* An upstream that cannot be reached.
DownResponses(source) ==
  {[net |-> "send_error", json_ok |-> TRUE, data |-> None, errors |-> None]}

\* An upstream that either fails or answers one whole record.
PlainResponses(source) ==
  {[net |-> "send_error", json_ok |-> TRUE, data |-> None, errors |-> None],
   Answer(Some(JObj([swaps |-> JArr(<<RawSwap(source, HashA, RawPool(Token0Addr))>>)])),
          None)}

SinkAnswers == {"ok", "timeout", "error"}

Ratio(n, d) == [num |-> n, den |-> d]

\* RetryConfig of AppConfig::default(), with max_attempts as given.
DefaultConfig(max_attempts) ==
  [max_attempts |-> max_attempts, initial_delay_ms |-> 1000,
   max_delay_ms |-> 10000, backoff_multiplier |-> Ratio(2, 1),
   polling_interval_seconds |-> 15]

\* Retry configurations with small delays and fractional multipliers.
BackoffConfigs ==
  {[max_attempts |-> MaxAttempts, initial_delay_ms |-> i, max_delay_ms |-> m,
    backoff_multiplier |-> r, polling_interval_seconds |-> 15] :
     i \in {1, 100}, m \in {3, 1000}, r \in {Ratio(2, 1), Ratio(3, 2)}}

\* ------------------------------------------------------------------- state

\* A poller task: the source it polls and the start_collecting call (counted
\* from 1) that spawned it.
Tasks == Sources \X (1..MaxStarts)

VARIABLES
  scenario,      \* the environment of the run: what it is allowed to do
  config,        \* AppConfig: the retry and polling settings
  is_running,    \* SwapEventCollector.is_running
  orch_metrics,  \* the MetricsCollector the orchestrator owns
  starts,        \* start_collecting calls that spawned tasks so far
  pc,            \* per task: where the task is suspended
  attempts,      \* per task: attempts of the *_with_retry call in progress
  delay,         \* per task: delay of the *_with_retry call in progress
  events,        \* per task: events of the collect_v*_events call in progress
  metrics,       \* per task: the MetricsCollector the task captured
  hist,          \* per task: history of the current cycle (not program state)
  unit           \* the object a unit-level run exercises, apart from the pipeline

vars ==
  <<scenario, config, is_running, orch_metrics, starts, pc, attempts, delay,
    events, metrics, hist, unit>>

\* cycles: cycles started; outcomes: the outcome of each finished attempt of
\* the current cycle; result: how the cycle ended; first_error, last_error:
\* the errors of the first and the last failed attempt of the cycle; raw: the
\* batch the last answer of the cycle carried; fetched_try: the attempt that
\* fetched events; after_stop: is_running was false when the cycle's tick fired;
\* input: whether the last query was answered with a decodable body, whether
\* that response carried a non-empty errors array, and what the sink answered
\* to the last pipeline.
NoHistory ==
  [cycles |-> 0, outcomes |-> <<>>, result |-> "none", first_error |-> "",
   last_error |-> "", raw |-> None, fetched_try |-> 0, after_stop |-> FALSE,
   input |-> [received |-> FALSE, errors |-> FALSE, sink |-> "none"]]

\* No unit-level object: the run is one of the pipeline.
NoUnit == [kind |-> "none"]

\* The interval timers of the two pollers, seen from the outside: period is
\* the period they were created with (0: not created yet), now the time since
\* their creation, due the ticks whose deadline has passed, delivered the
\* ticks each task was handed, late whether a task was handed a tick after the
\* deadline of the following one.
NoTimers ==
  [kind |-> "timer", period |-> 0, now |-> 0, due |-> 0,
   delivered |-> [t \in Tasks |-> 0], late |-> [t \in Tasks |-> FALSE]]

\* A polling interval clamped to two seconds.
interval_duration_two(cfg) == Max(cfg.polling_interval_seconds, 2)

\* Duration::from_secs(config.subgraph.polling_interval_seconds.max(1))
interval_duration(cfg) == Max(cfg.polling_interval_seconds, 1)

\* The ticks of an interval whose deadline has passed: the first completes at
\* once, the others one period apart.
elapsed_ticks(period, now) == 1 + now \div period

\* tokio::time::interval(interval_duration) in start_v2_collection and
\* start_v3_collection.
start_timers(u, cfg) ==
  IF u.kind = "timer"
  THEN [u EXCEPT !.period = interval_duration(cfg), !.now = 0,
                 !.due = elapsed_ticks(interval_duration(cfg), 0)]
  ELSE u

\* Whether interval_timer.tick() of task t can complete.
tick_due(u, t) == u.kind = "timer" => u.delivered[t] < u.due

\* A timer that drops the ticks missed during a slow cycle.
after_tick_skip(u, t) ==
  IF u.kind = "timer"
  THEN [u EXCEPT !.delivered[t] = u.due,
                 !.late[t] = @ \/ u.due > u.delivered[t] + 1]
  ELSE u

\* interval_timer.tick() completed: the timer hands over one tick; those
\* missed meanwhile stay due and complete one after the other.
after_tick(u, t) ==
  IF u.kind = "timer"
  THEN [u EXCEPT !.delivered[t] = @ + 1,
                 !.late[t] = @ \/ u.due > u.delivered[t] + 1]
  ELSE u

\* What the environment may do in each scenario.
StartLimit == IF scenario.name = "api" THEN MaxStarts ELSE 1
CycleLimit ==
  CASE scenario.name \in {"fair", "indep"} -> MaxCycles
    [] scenario.name = "timer" -> MaxTime + 1
    [] OTHER -> 1
Healthy(source) ==
  \/ scenario.name = "pipeline" /\ scenario.rich # source
  \/ scenario.name = "api" /\ source = "V3"
Sinks(source) ==
  IF scenario.name \in {"plain", "steady"}
       \/ (scenario.name = "pipeline" /\ ~Healthy(source))
  THEN SinkAnswers
  ELSE {"ok"}
Down(source) ==
  \/ scenario.name \in {"api", "timer"} /\ source = "V2"
  \/ scenario.name = "steady" /\ scenario.rich # source
Serializations(source) ==
  IF Healthy(source) \/ Down(source) \/ scenario.name = "timer"
  THEN {TRUE} ELSE BOOLEAN
Responses(source) ==
  CASE scenario.name = "pipeline" /\ ~Healthy(source) -> FullResponses(source)
    [] Healthy(source) -> HealthyResponses(source)
    [] Down(source) -> DownResponses(source)
    [] scenario.name = "steady" ->
         {Answer(Some(JObj([swaps |-> JArr(scenario.batch)])), None)}
    [] OTHER -> PlainResponses(source)

InitProgram ==
  /\ is_running = FALSE
  /\ orch_metrics = new_metrics
  /\ starts = 0
  /\ pc = [t \in Tasks |-> "unspawned"]
  /\ attempts = [t \in Tasks |-> 0]
  /\ delay = [t \in Tasks |-> 0]
  /\ events = [t \in Tasks |-> <<>>]
  /\ metrics = [t \in Tasks |-> new_metrics]
  /\ hist = [t \in Tasks |-> NoHistory]
  /\ unit = NoUnit

\* The pipeline: started once, the upstream of one source answering anything
\* and that of the other source healthy.
Init ==
  /\ scenario \in {[name |-> "pipeline", rich |-> s, stalled |-> "none"] :
                    s \in Sources}
  /\ config = DefaultConfig(2)
  /\ InitProgram

\* Plain upstreams, started once.
InitPlain ==
  /\ scenario = [name |-> "plain", rich |-> "none", stalled |-> "none"]
  /\ config \in {DefaultConfig(m) : m \in 1..MaxAttempts}
  /\ InitProgram

\* Started and stopped in any order; the V2 upstream is down, the V3 one is
\* healthy.
InitApi ==
  /\ scenario = [name |-> "api", rich |-> "none", stalled |-> "none"]
  /\ config = DefaultConfig(2)
  /\ InitProgram

\* Plain upstreams, started once, any retry configuration.
InitBackoff ==
  /\ scenario = [name |-> "backoff", rich |-> "none", stalled |-> "none"]
  /\ config \in BackoffConfigs
  /\ InitProgram

\* Plain upstreams, started once, every task scheduled fairly.
InitFair ==
  /\ scenario = [name |-> "fair", rich |-> "none", stalled |-> "none"]
  /\ config = DefaultConfig(2)
  /\ InitProgram

\* Plain upstreams, started once; the task of one source may stall for ever.
InitIndep ==
  /\ scenario \in {[name |-> "indep", rich |-> "none", stalled |-> s] :
                    s \in Sources}
  /\ config = DefaultConfig(2)
  /\ InitProgram

\* Started once; the upstream of one source answers the same batch to every
\* query and that of the other source is down; any number of attempts.
InitSteady ==
  /\ scenario \in UNION {{[name |-> "steady", rich |-> s, stalled |-> "none",
                             batch |-> b] :
                              b \in SeqsUpTo(SampleRecords(s), MaxBatch)} :
                            s \in Sources}
  /\ config \in {DefaultConfig(m) : m \in 1..MaxAttempts}
  /\ InitProgram

\* The polling intervals a configuration may carry.
TimerConfigs ==
  {[DefaultConfig(2) EXCEPT !.polling_interval_seconds = i] : i \in {0, 1, 2}}

\* The pollers on their timers: started once, the V2 upstream down, the V3
\* one plain, any polling interval.
InitTimer ==
  /\ scenario = [name |-> "timer", rich |-> "none", stalled |-> "none"]
  /\ config \in TimerConfigs
  /\ is_running = FALSE
  /\ orch_metrics = new_metrics
  /\ starts = 0
  /\ pc = [t \in Tasks |-> "unspawned"]
  /\ attempts = [t \in Tasks |-> 0]
  /\ delay = [t \in Tasks |-> 0]
  /\ events = [t \in Tasks |-> <<>>]
  /\ metrics = [t \in Tasks |-> new_metrics]
  /\ hist = [t \in Tasks |-> NoHistory]
  /\ unit = NoTimers

\* ----------------------------------------------------------------- actions

\* start_collecting without its is_running guard.
StartCollecting_unguarded ==
  /\ starts < StartLimit
  /\ starts' = starts + 1
  /\ pc' = [t \in Tasks |-> IF t[2] = starts + 1 THEN "tick_wait" ELSE pc[t]]
  /\ metrics' = [t \in Tasks |-> IF t[2] = starts + 1
                                 THEN clone_metrics(orch_metrics)
                                 ELSE metrics[t]]
  /\ is_running' = TRUE
  /\ unit' = start_timers(unit, config)
  /\ UNCHANGED <<scenario, config, orch_metrics, attempts, delay, events, hist>>

\* start_collecting without the assignment self.is_running = true.
StartCollecting_unflagged ==
  IF is_running THEN UNCHANGED vars
  ELSE /\ starts < StartLimit
       /\ starts' = starts + 1
       /\ pc' = [t \in Tasks |-> IF t[2] = starts + 1 THEN "tick_wait" ELSE pc[t]]
       /\ metrics' = [t \in Tasks |-> IF t[2] = starts + 1
                                      THEN clone_metrics(orch_metrics)
                                      ELSE metrics[t]]
       /\ UNCHANGED is_running
       /\ unit' = start_timers(unit, config)
       /\ UNCHANGED <<scenario, config, orch_metrics, attempts, delay, events, hist>>

\* SwapEventCollector::start_collecting (the builder self-tests it runs first
\* only log). start_v2_collection and start_v3_collection clone the config,
\* the clients and the metrics collector and spawn one detached task each.
StartCollecting ==
  IF is_running THEN UNCHANGED vars
  ELSE /\ starts < StartLimit
       /\ starts' = starts + 1
       /\ pc' = [t \in Tasks |-> IF t[2] = starts + 1 THEN "tick_wait" ELSE pc[t]]
       /\ metrics' = [t \in Tasks |-> IF t[2] = starts + 1
                                      THEN clone_metrics(orch_metrics)
                                      ELSE metrics[t]]
       /\ is_running' = TRUE
       /\ unit' = start_timers(unit, config)
       /\ UNCHANGED <<scenario, config, orch_metrics, attempts, delay, events, hist>>

\* SwapEventCollector::stop_collecting
StopCollecting ==
  IF ~is_running THEN UNCHANGED vars
  ELSE /\ is_running' = FALSE
       /\ UNCHANGED <<unit, scenario, config, orch_metrics, starts, pc, attempts,
                      delay, events, metrics, hist>>

\* SwapEventCollector::shutdown
Shutdown ==
  IF is_running THEN StopCollecting ELSE UNCHANGED vars

\* The attempt of task t failed with `kind`; m is the task's metrics so far.
AttemptFailed(t, kind, m, raw, input) ==
  LET r == retry_step(config, attempts[t], delay[t])
      h == [hist[t] EXCEPT !.outcomes = Append(@, "err"),
                           !.first_error = IF @ = "" THEN kind ELSE @,
                           !.last_error = kind, !.raw = raw, !.fetched_try = 0,
                           !.input = input]
  IN /\ events' = [events EXCEPT ![t] = <<>>]
     /\ IF r.exhausted
        THEN /\ pc' = [pc EXCEPT ![t] = poller_after_cycle("err")]
             /\ attempts' = [attempts EXCEPT ![t] = 0]
             /\ delay' = [delay EXCEPT ![t] = 0]
             /\ metrics' = [metrics EXCEPT ![t] = count_cycle_result(m, "err")]
             /\ hist' = [hist EXCEPT ![t] = [h EXCEPT !.result = "err"]]
        ELSE /\ pc' = [pc EXCEPT ![t] = "sleeping"]
             /\ attempts' = [attempts EXCEPT ![t] = r.attempts]
             /\ delay' = [delay EXCEPT ![t] = r.delay]
             /\ metrics' = [metrics EXCEPT ![t] = m]
             /\ hist' = [hist EXCEPT ![t] = h]

\* The attempt of task t succeeded, and with it the cycle.
AttemptSucceeded(t, m, raw, input) ==
  /\ events' = [events EXCEPT ![t] = <<>>]
  /\ pc' = [pc EXCEPT ![t] = poller_after_cycle("ok")]
  /\ attempts' = [attempts EXCEPT ![t] = 0]
  /\ delay' = [delay EXCEPT ![t] = 0]
  /\ metrics' = [metrics EXCEPT ![t] = count_cycle_result(m, "ok")]
  /\ hist' = [hist EXCEPT ![t] = [@ EXCEPT !.outcomes = Append(@, "ok"),
                                          !.result = "ok", !.raw = raw,
                                          !.fetched_try = 0, !.input = input]]

\* A spawned loop that leaves once the collector was stopped.
tick_ready_running(t) == pc[t] = "tick_wait" /\ is_running

\* One timer for all tasks: a tick waits for the other tasks to be idle.
tick_ready_joint(t) ==
  /\ pc[t] = "tick_wait"
  /\ \A u \in Tasks : u # t => pc[u] \in {"unspawned", "tick_wait"}

\* Whether task t may take its tick (each task owns its interval timer).
tick_ready(t) == pc[t] = "tick_wait"

\* interval_timer.tick() completes: the task calls collect_v*_events_with_retry,
\* which sets attempts and delay and sends the first query.
Tick(t) ==
  /\ tick_ready(t)
  /\ tick_due(unit, t)
  /\ hist[t].cycles < CycleLimit
  /\ pc' = [pc EXCEPT ![t] = attempt_entry]
  /\ attempts' = [attempts EXCEPT ![t] = 0]
  /\ delay' = [delay EXCEPT ![t] = config.initial_delay_ms]
  /\ hist' = [hist EXCEPT ![t] = [NoHistory EXCEPT !.cycles = hist[t].cycles + 1,
                                                   !.after_stop = ~is_running]]
  /\ unit' = after_tick(unit, t)
  /\ UNCHANGED <<scenario, config, is_running, orch_metrics, starts, events, metrics>>

\* The upstream answers the query of task t: the rest of collect_v*_events up
\* to the sink's answer runs without suspending.
FetchReturn(t) ==
  /\ pc[t] = "fetching"
  /\ \E resp \in Responses(t[1]), ser_ok \in Serializations(t[1]) :
     \E a \in {attempt_after_fetch(t[1], resp, ser_ok)} :
       LET m == record_errors(metrics[t], a.errors)
           input == [received |-> resp.net = "ok" /\ resp.json_ok,
                     errors |-> errors_of(resp), sink |-> "none"]
       IN CASE a.status = "err" -> AttemptFailed(t, a.kind, m, a.raw, input)
            [] a.status = "ok" -> AttemptSucceeded(t, m, a.raw, input)
            [] OTHER ->
                 /\ pc' = [pc EXCEPT ![t] = "publishing"]
                 /\ events' = [events EXCEPT ![t] = a.events]
                 /\ metrics' = [metrics EXCEPT ![t] = m]
                 /\ hist' = [hist EXCEPT ![t] =
                               [@ EXCEPT !.raw = a.raw,
                                         !.fetched_try = Len(hist[t].outcomes) + 1,
                                         !.input = input]]
                 /\ UNCHANGED <<attempts, delay>>
  /\ UNCHANGED <<unit, scenario, config, is_running, orch_metrics, starts>>

\* The sink answers the pipeline of task t.
PublishReturn(t) ==
  /\ pc[t] = "publishing"
  /\ \E sink \in Sinks(t[1]) :
       LET r == publish_result(sink)
           input == [hist[t].input EXCEPT !.sink = sink]
       IN IF r.ok
          THEN AttemptSucceeded(
                 t, record_events_processed(metrics[t], Len(events[t])), None,
                 input)
          ELSE AttemptFailed(t, r.err, metrics[t], None, input)
  /\ UNCHANGED <<unit, scenario, config, is_running, orch_metrics, starts>>

\* The backoff sleep of task t ends: the next attempt starts.
Wake(t) ==
  /\ pc[t] = "sleeping"
  /\ pc' = [pc EXCEPT ![t] = attempt_entry]
  /\ hist' = [hist EXCEPT ![t] = [@ EXCEPT !.raw = None]]
  /\ UNCHANGED <<unit, scenario, config, is_running, orch_metrics, starts, attempts,
                 delay, events, metrics>>

\* One step of task t.
PollerStep(t) == Tick(t) \/ FetchReturn(t) \/ PublishReturn(t) \/ Wake(t)

Next ==
  \/ StartCollecting
  \/ StopCollecting
  \/ Shutdown
  \/ \E t \in Tasks : Tick(t)
  \/ \E t \in Tasks : FetchReturn(t)
  \/ \E t \in Tasks : PublishReturn(t)
  \/ \E t \in Tasks : Wake(t)

Spec == Init /\ [][Next]_vars

\* One second passes on the pollers' timers.
TimePasses ==
  /\ unit.kind = "timer"
  /\ unit.period > 0
  /\ unit.now < MaxTime
  /\ unit' = [unit EXCEPT !.now = @ + 1,
                          !.due = elapsed_ticks(unit.period, unit.now + 1)]
  /\ UNCHANGED <<scenario, config, is_running, orch_metrics, starts, pc, attempts,
                 delay, events, metrics, hist>>

TimerNext == Next \/ TimePasses

\* The pollers on their timers, each task taking its steps while time passes
\* or stands still.
TimerSpec ==
  InitTimer /\ [][TimerNext]_vars /\ \A t \in Tasks : WF_vars(PollerStep(t))
PlainSpec == InitPlain /\ [][Next]_vars
ApiSpec == InitApi /\ [][Next]_vars
BackoffSpec == InitBackoff /\ [][Next]_vars

\* The runtime schedules every spawned task: its timer fires, and the HTTP
\* client and the sink both answer or time out.
FairSpec ==
  InitFair /\ [][Next]_vars /\ \A t \in Tasks : WF_vars(PollerStep(t))

SteadySpec == InitSteady /\ [][Next]_vars

\* As FairSpec, but nothing is assumed of the stalled source's task.
IndepSpec ==
  /\ InitIndep
  /\ [][Next]_vars
  /\ \A t \in Tasks : WF_vars(scenario.stalled # t[1] /\ PollerStep(t))

\* --------------------------------------------------------------- unit level

\* SwapEventBuilder::validate: the warnings, in the order they are pushed.
address_warnings(addr, what) ==
  IF is_empty(addr) THEN <<what \o " is empty">>
  ELSE IF ~starts_with(addr, <<"0", "x">>) THEN <<what \o " doesn't start with 0x">>
  ELSE <<>>

token_warnings(tok, what) ==
  IF tok.t = "none" THEN <<what \o " is not set">>
  ELSE address_warnings(tok.v.address, what \o " address")
       \o (IF is_empty(tok.v.symbol) THEN <<what \o " symbol is empty">> ELSE <<>>)

\* The amount warnings without the one of a non-numeric amount.
amount_warnings_unchecked(amount, what) ==
  IF amount.t = "none" THEN <<what \o " is not set">>
  ELSE IF is_empty(amount.v) THEN <<what \o " is empty">>
  ELSE <<>>

amount_warnings(amount, what) ==
  IF amount.t = "none" THEN <<what \o " is not set">>
  ELSE IF is_empty(amount.v) THEN <<what \o " is empty">>
  ELSE IF ~is_numeric(amount.v) THEN <<what \o " is not numeric">>
  ELSE <<>>

validate(b) ==
  (IF b.version.t = "none" THEN <<"Version is not set">> ELSE <<>>)
  \o (IF b.transaction_hash.t = "none" THEN <<"Transaction hash is not set">>
      ELSE IF is_empty(b.transaction_hash.v) THEN <<"Transaction hash is empty">>
      ELSE <<>>)
  \o (IF b.pool_address.t = "none" THEN <<"Pool address is not set">>
      ELSE address_warnings(b.pool_address.v, "Pool address"))
  \o token_warnings(b.token_in, "Token in")
  \o token_warnings(b.token_out, "Token out")
  \o amount_warnings(b.amount_in, "Amount in")
  \o amount_warnings(b.amount_out, "Amount out")
  \o (IF b.user_address.t = "none" THEN <<"User address is not set">>
      ELSE address_warnings(b.user_address.v, "User address"))

\* SwapEventBuilder::is_ready
is_ready(b) == validate(b) = <<>>

\* SwapEventCollector::validate_event_data
validate_event_data(version, transaction_hash, pool_address, token_in, token_out, amount_in, amount_out, user_address) ==
  IF is_ready(set_user_address(
                set_amount_out(
                  set_amount_in(
                    set_token_out(
                      set_token_in(
                        set_pool_address(
                          set_transaction_hash(set_version(builder, version),
                                               transaction_hash),
                          pool_address),
                        token_in),
                      token_out),
                    amount_in),
                  amount_out),
                user_address))
  THEN Ok("valid")
  ELSE Err("Event validation failed")

\* SubgraphClient::test_connectivity: each probe query is matched, a failure
\* is logged with warn!, and the function returns Ok(()).
test_connectivity(v2_ok, v3_ok) == Ok("probed")

\* RedisPublisher::test_connection, by what the SET command answered.
test_connection(answer) ==
  CASE answer = "ok" -> Ok("connected")
    [] answer = "timeout" -> Err("RedisTimeout")
    [] OTHER -> Err("RedisConnection")

\* A TokenInfo as health_check writes it out (addresses abbreviated).
SampleToken(address, symbol, decimals) ==
  [address |-> address, symbol |-> symbol, name |-> symbol,
   decimals |-> decimals, logo_uri |-> None, price_usd |-> None,
   market_cap |-> None]

\* SwapEventCollector::health_check; the sample hash and addresses are
\* abbreviated, keeping their 0x prefix, and the amounts are as in the source.
health_check(v2_ok, v3_ok, redis_answer) ==
  /\ test_connectivity(v2_ok, v3_ok).ok
  /\ test_connection(redis_answer).ok
  /\ validate_event_data("V2", <<"0", "x", "1", "2">>, <<"0", "x", "8", "a">>,
                         SampleToken(<<"0", "x", "A", "0">>, <<"U", "S", "D", "C">>, 6),
                         SampleToken(<<"0", "x", "C", "0">>, <<"W", "E", "T", "H">>, 18),
                         <<"1", "0", "0", "0", "0", "0", "0">>,
                         <<"0", ".", "0", "0", "0", "5">>,
                         <<"0", "x", "7", "4">>).ok

\* SwapEvent::new: the fields as given, nothing checked.
new(version, transaction_hash, pool_address, token_in, token_out, amount_in, amount_out, user_address) ==
  [id |-> version_display(version) \o <<"_">> \o transaction_hash,
   version |-> version,
   block_number |-> 0,
   transaction_hash |-> transaction_hash,
   pool_address |-> pool_address,
   token_in |-> token_in,
   token_out |-> token_out,
   amount_in |-> amount_in,
   amount_out |-> amount_out,
   amount_in_usd |-> None, amount_out_usd |-> None,
   fee_amount |-> None, fee_usd |-> None,
   user_address |-> user_address,
   gas_used |-> None, gas_price |-> None, gas_cost_usd |-> None,
   pool_info |-> None, enriched_data |-> None]

\* The builder chain of the from_* constructors and create_with_builder.
chain(version, transaction_hash, pool_address, token_in, token_out, amount_in, amount_out, user_address) ==
  set_user_address(
    set_amount_out(
      set_amount_in(
        set_token_out(
          set_token_in(
            set_pool_address(
              set_transaction_hash(set_version(builder, version),
                                   transaction_hash),
              pool_address),
            token_in),
          token_out),
        amount_in),
      amount_out),
    user_address)

\* TokenInfo { address: token.id, symbol, name, decimals, None, None, None }
token_of(token) ==
  [address |-> token.id, symbol |-> token.symbol, name |-> token.name,
   decimals |-> token.decimals,
   logo_uri |-> None, price_usd |-> None, market_cap |-> None]

\* SwapEvent::from_v2_subgraph: the side with a non-"0" amount is taken.
from_v2_subgraph(v2_event, pool_address, user_address) ==
  build(chain("V2", v2_event.id, pool_address,
              IF v2_event.amount0_in # <<"0">>
              THEN token_of(v2_event.pair.token0)
              ELSE token_of(v2_event.pair.token1),
              IF v2_event.amount0_out # <<"0">>
              THEN token_of(v2_event.pair.token0)
              ELSE token_of(v2_event.pair.token1),
              IF v2_event.amount0_in # <<"0">>
              THEN v2_event.amount0_in ELSE v2_event.amount1_in,
              IF v2_event.amount0_out # <<"0">>
              THEN v2_event.amount0_out ELSE v2_event.amount1_out,
              user_address))

\* A decimal numeral without sign or exponent, as str::parse::<f64> reads it.
is_decimal(s) ==
  /\ \E i \in 1..Len(s) : s[i] \in Digits
  /\ \A i \in 1..Len(s) : s[i] \in Digits \cup {"."}
  /\ Cardinality({i \in 1..Len(s) : s[i] = "."}) <= 1

has_nonzero_digit(s) == \E i \in 1..Len(s) : s[i] \in Digits \ {"0"}

\* An exponent: digits after an optional sign.
is_exponent(s) ==
  /\ s # <<>>
  /\ \/ \A i \in 1..Len(s) : s[i] \in Digits
     \/ /\ Len(s) >= 2
        /\ s[1] \in {"+", "-"}
        /\ \A i \in 2..Len(s) : s[i] \in Digits

\* The sign (0 or 1) of an unsigned numeral, with or without exponent, and -2
\* for what is no numeral (the exponent is taken not to underflow).
unsigned_f64_sign(s) ==
  IF is_decimal(s) THEN (IF has_nonzero_digit(s) THEN 1 ELSE 0)
  ELSE IF \E k \in 2..(Len(s) - 1) :
            /\ s[k] \in {"e", "E"}
            /\ is_decimal(SubSeq(s, 1, k - 1))
            /\ is_exponent(SubSeq(s, k + 1, Len(s)))
       THEN (IF \E k \in 2..(Len(s) - 1) :
                  /\ s[k] \in {"e", "E"}
                  /\ has_nonzero_digit(SubSeq(s, 1, k - 1))
             THEN 1 ELSE 0)
       ELSE -2

\* The sign (-1, 0, 1) of amount.parse::<f64>().unwrap_or(0.0) for decimal
\* numerals with an optional sign and exponent; what does not parse gives 0.0
\* (inf, nan and infinity are not among the amounts read here).
f64_sign(s) ==
  IF s # <<>> /\ s[1] = "-"
  THEN (IF unsigned_f64_sign(Tail(s)) = 1 THEN -1 ELSE 0)
  ELSE IF s # <<>> /\ s[1] = "+"
  THEN (IF unsigned_f64_sign(Tail(s)) = 1 THEN 1 ELSE 0)
  ELSE (IF unsigned_f64_sign(s) = 1 THEN 1 ELSE 0)

\* SwapEvent::from_v3_subgraph: the sign of amount0 decides the sides.
from_v3_subgraph(v3_event, pool_address, user_address) ==
  build(chain("V3", v3_event.id, pool_address,
              IF f64_sign(v3_event.amount0) < 0
              THEN token_of(v3_event.pool.token0)
              ELSE token_of(v3_event.pool.token1),
              IF f64_sign(v3_event.amount0) > 0
              THEN token_of(v3_event.pool.token0)
              ELSE token_of(v3_event.pool.token1),
              IF f64_sign(v3_event.amount0) < 0
              THEN v3_event.amount0 ELSE v3_event.amount1,
              IF f64_sign(v3_event.amount0) > 0
              THEN v3_event.amount0 ELSE v3_event.amount1,
              user_address))

\* SwapEvent::from_raw_data
from_raw_data(version, transaction_hash, pool_address, token_in_address, token_in_symbol, token_in_name, token_in_decimals, token_out_address, token_out_symbol, token_out_name, token_out_decimals, amount_in, amount_out, user_address) ==
  build(chain(version, transaction_hash, pool_address,
              [address |-> token_in_address, symbol |-> token_in_symbol,
               name |-> token_in_name, decimals |-> token_in_decimals,
               logo_uri |-> None, price_usd |-> None, market_cap |-> None],
              [address |-> token_out_address, symbol |-> token_out_symbol,
               name |-> token_out_name, decimals |-> token_out_decimals,
               logo_uri |-> None, price_usd |-> None, market_cap |-> None],
              amount_in, amount_out, user_address))

\* json_value[k].as_str().ok_or(..)?: the string member, None when missing.
json_str(json_value, k) == opt_str(json_value, k)

\* The TokenInfo from_json reads from json_value[k], None when a required
\* member is missing.
json_token(json_value, k) ==
  LET tok == Get(json_value, k)
  IN IF tok.t = "none" THEN None
     ELSE IF \/ opt_str(tok.v, "address").t = "none"
             \/ opt_str(tok.v, "symbol").t = "none"
             \/ opt_str(tok.v, "name").t = "none"
             \/ Get(tok.v, "decimals").t = "none"
             \/ Get(tok.v, "decimals").v.t # "num"
          THEN None
          ELSE Some([address |-> opt_str(tok.v, "address").v,
                     symbol |-> opt_str(tok.v, "symbol").v,
                     name |-> opt_str(tok.v, "name").v,
                     decimals |-> Get(tok.v, "decimals").v.n % 256,
                     logo_uri |-> opt_str(tok.v, "logo_uri"),
                     price_usd |-> None, market_cap |-> None])

\* SwapEvent::from_json on the parsed text; json_ok is whether the text parsed.
from_json(json_ok, json_value) ==
  IF ~json_ok THEN Err("Failed to parse JSON")
  ELSE IF json_str(json_value, "version")
            \notin {Some(<<"v", "2">>), Some(<<"v", "3">>)}
  THEN Err("Invalid or missing version")
  ELSE IF json_str(json_value, "transaction_hash").t = "none"
  THEN Err("Missing transaction_hash")
  ELSE IF json_str(json_value, "pool_address").t = "none"
  THEN Err("Missing pool_address")
  ELSE IF json_str(json_value, "user_address").t = "none"
  THEN Err("Missing user_address")
  ELSE IF json_token(json_value, "token_in").t = "none"
  THEN Err("Missing token_in")
  ELSE IF json_token(json_value, "token_out").t = "none"
  THEN Err("Missing token_out")
  ELSE IF json_str(json_value, "amount_in").t = "none"
  THEN Err("Missing amount_in")
  ELSE IF json_str(json_value, "amount_out").t = "none"
  THEN Err("Missing amount_out")
  ELSE build(chain(IF json_str(json_value, "version").v = <<"v", "2">>
                   THEN "V2" ELSE "V3",
                   json_str(json_value, "transaction_hash").v,
                   json_str(json_value, "pool_address").v,
                   json_token(json_value, "token_in").v,
                   json_token(json_value, "token_out").v,
                   json_str(json_value, "amount_in").v,
                   json_str(json_value, "amount_out").v,
                   json_str(json_value, "user_address").v))

\* Backoff configurations: the two of the unit tests of backoff.rs, a
\* fractional multiplier, an initial delay above the cap, and no attempts.
UnitBackoffConfigs ==
  {[max_attempts |-> 3, initial_delay_ms |-> 100, max_delay_ms |-> 1000,
    backoff_multiplier |-> Ratio(2, 1), polling_interval_seconds |-> 15],
   [max_attempts |-> 5, initial_delay_ms |-> 1000, max_delay_ms |-> 2000,
    backoff_multiplier |-> Ratio(3, 1), polling_interval_seconds |-> 15],
   [max_attempts |-> 4, initial_delay_ms |-> 1, max_delay_ms |-> 3,
    backoff_multiplier |-> Ratio(3, 2), polling_interval_seconds |-> 15],
   [max_attempts |-> 2, initial_delay_ms |-> 5, max_delay_ms |-> 2,
    backoff_multiplier |-> Ratio(2, 1), polling_interval_seconds |-> 15],
   [max_attempts |-> 0, initial_delay_ms |-> 100, max_delay_ms |-> 1000,
    backoff_multiplier |-> Ratio(2, 1), polling_interval_seconds |-> 15]}

\* Values handed to the builder's setters.
UnitHashes == {<<>>, <<"0", "x", "a", "b", "c">>, <<"0", "x", "a", "b">>}
UnitAddresses(c) == {<<>>, <<"0", "x", c>>, <<c>>}
UnitTokens(c) == {SampleToken(a, <<"T", c>>, 18) : a \in UnitAddresses(c)}
UnitAmountsIn ==
  {<<>>, <<"5">>, <<"1", ".", "5">>, <<"1", "2", ".", "5", "e", "9">>}
UnitAmountsOut == {<<>>, <<"7">>, <<"-", "1">>}

\* A controller under test, with the calls made on it: what next_delay
\* returned since the last reset, and what it returned before the first reset.
UnitBackoff(cfg) ==
  [kind |-> "backoff", b |-> backoff_new(cfg), returned |-> <<>>,
   first_epoch |-> <<>>, calls |-> 0, resets |-> 0]

\* A builder under test; result is what build returned, once called.
UnitBuilder ==
  [kind |-> "builder", b |-> builder, result |-> None, reread |-> None]

\* A collector whose collaborators answer the probes as given.
UnitHealth(v2_ok, v3_ok, redis_answer) ==
  [kind |-> "health", v2_ok |-> v2_ok, v3_ok |-> v3_ok,
   redis_answer |-> redis_answer, result |-> None]

\* A GraphQLToken.
GraphToken(id, symbol) ==
  [id |-> id, symbol |-> symbol, name |-> symbol, decimals |-> 6]

\* UniswapV2SwapEvent values: every combination of zero and non-zero amounts.
UnitV2Events ==
  {[id |-> HashA,
    pair |-> [id |-> PoolAddr, token0 |-> GraphToken(Token0Addr, <<"A">>),
              token1 |-> GraphToken(Token1Addr, <<"B">>)],
    sender |-> SenderAddr,
    amount0_in |-> a0i, amount1_in |-> a1i,
    amount0_out |-> a0o, amount1_out |-> a1o] :
     a0i \in {<<"0">>, <<"5">>}, a1i \in {<<"0">>, <<"6">>},
     a0o \in {<<"0">>, <<"7">>}, a1o \in {<<"0">>, <<"8">>}}

\* UniswapV3SwapEvent values: signed amounts, and one in scientific notation.
UnitV3Events ==
  {[id |-> HashA,
    pool |-> [id |-> PoolAddr, token0 |-> GraphToken(Token0Addr, <<"A">>),
              token1 |-> GraphToken(Token1Addr, <<"B">>)],
    sender |-> SenderAddr,
    amount0 |-> a0, amount1 |-> a1] :
     a0 \in {<<"5">>, <<"-", "5">>, <<"0">>, <<"1", "e", "3">>},
     a1 \in {<<"7">>, <<"-", "7">>, <<"0", ".", "5">>}}

\* The JSON object a GraphQLToken is serialized as.
raw_of_token(token) ==
  JObj([id |-> JStr(token.id), symbol |-> JStr(token.symbol),
        name |-> JStr(token.name), decimals |-> JNum(token.decimals)])

\* The raw record a UniswapV2SwapEvent is the typed form of.
raw_of_v2_event(e) ==
  JObj([id |-> JStr(e.id),
        pair |-> JObj([id |-> JStr(e.pair.id),
                       token0 |-> raw_of_token(e.pair.token0),
                       token1 |-> raw_of_token(e.pair.token1)]),
        sender |-> JStr(e.sender),
        amount0_in |-> JStr(e.amount0_in), amount1_in |-> JStr(e.amount1_in),
        amount0_out |-> JStr(e.amount0_out), amount1_out |-> JStr(e.amount1_out)])

\* The raw record a UniswapV3SwapEvent is the typed form of.
raw_of_v3_event(e) ==
  JObj([id |-> JStr(e.id),
        pool |-> JObj([id |-> JStr(e.pool.id),
                       token0 |-> raw_of_token(e.pool.token0),
                       token1 |-> raw_of_token(e.pool.token1)]),
        sender |-> JStr(e.sender),
        amount0 |-> JStr(e.amount0), amount1 |-> JStr(e.amount1)])

\* A raw record under normalization: what the poller's parse function made of
\* it the first and the second time, and what the typed constructor made of
\* its typed form (when it has one).
UnitRecord(source, raw, typed) ==
  [kind |-> "record", source |-> source, raw |-> raw, typed |-> typed,
   parsed |-> None, reparsed |-> None, converted |-> None]

UnitRecords ==
  {UnitRecord("V2", raw_of_v2_event(e), Some(e)) : e \in UnitV2Events}
  \cup {UnitRecord("V3", raw_of_v3_event(e), Some(e)) : e \in UnitV3Events}
  \cup {UnitRecord(s, r, None) : s \in Sources, r \in SampleRecords("V2")}
  \cup {UnitRecord(s, r, None) : s \in Sources, r \in SampleRecords("V3")}

\* An event under construction and enrichment: what the constructor returned
\* and the event as it is now.
UnitEvent == [kind |-> "event", made |-> None, event |-> None]

\* Arguments handed to the constructors.
UnitArgs ==
  [version : Sources,
   transaction_hash : {<<>>, HashA},
   pool_address : {PoolAddr},
   token_in : UnitTokens("a"),
   token_out : {SampleToken(Token1Addr, <<"B">>, 18)},
   amount_in : {<<"5">>, <<"-", "1">>},
   amount_out : {<<"7">>},
   user_address : {SenderAddr}]

\* The JSON text of an event with these fields, parsed.
json_of_token(token) ==
  JObj([address |-> JStr(token.address), symbol |-> JStr(token.symbol),
        name |-> JStr(token.name), decimals |-> JNum(token.decimals)])

json_of_args(a) ==
  JObj([version |-> JStr(version_display(a.version)),
        transaction_hash |-> JStr(a.transaction_hash),
        pool_address |-> JStr(a.pool_address),
        token_in |-> json_of_token(a.token_in),
        token_out |-> json_of_token(a.token_out),
        amount_in |-> JStr(a.amount_in), amount_out |-> JStr(a.amount_out),
        user_address |-> JStr(a.user_address)])

\* Option<f64>, Option<u64> and Option<String> as serde writes them: null for
\* None, the value for Some.
json_of_opt_num(o) == IF o.t = "none" THEN JNull ELSE JNum(o.v)
json_of_opt_str(o) == IF o.t = "none" THEN JNull ELSE JStr(o.v)

\* #[derive(Serialize)] on TokenInfo: one member per field.
serialize_token(token) ==
  JObj([address |-> JStr(token.address), symbol |-> JStr(token.symbol),
        name |-> JStr(token.name), decimals |-> JNum(token.decimals),
        logo_uri |-> json_of_opt_str(token.logo_uri),
        price_usd |-> json_of_opt_num(token.price_usd),
        market_cap |-> json_of_opt_num(token.market_cap)])

\* #[derive(Serialize)] on UniswapVersion with the Display names as the
\* variant names, as #[serde(rename_all = "lowercase")] would write them.
serialize_version_lowercase(version) == JStr(version_display(version))

\* #[derive(Serialize)] on UniswapVersion: a unit variant is written as the
\* string of its name, and no attribute renames the variants.
serialize_version(version) ==
  IF version = "V2" THEN JStr(<<"V", "2">>) ELSE JStr(<<"V", "3">>)

\* serde_json::to_string(&event), parsed: #[derive(Serialize)] on SwapEvent
\* writes one member per field, for an event without enrichment (pool_info
\* and enriched_data are None on every event build returns).
serialize(event) ==
  JObj([id |-> JStr(event.id),
        version |-> serialize_version(event.version),
        timestamp |-> JStr(<<ToString(event.timestamp)>>),
        block_number |-> JNum(event.block_number),
        transaction_hash |-> JStr(event.transaction_hash),
        pool_address |-> JStr(event.pool_address),
        token_in |-> serialize_token(event.token_in),
        token_out |-> serialize_token(event.token_out),
        amount_in |-> JStr(event.amount_in),
        amount_out |-> JStr(event.amount_out),
        amount_in_usd |-> json_of_opt_num(event.amount_in_usd),
        amount_out_usd |-> json_of_opt_num(event.amount_out_usd),
        fee_amount |-> json_of_opt_str(event.fee_amount),
        fee_usd |-> json_of_opt_num(event.fee_usd),
        user_address |-> JStr(event.user_address),
        gas_used |-> json_of_opt_num(event.gas_used),
        gas_price |-> json_of_opt_str(event.gas_price),
        gas_cost_usd |-> json_of_opt_num(event.gas_cost_usd),
        pool_info |-> JNull, enriched_data |-> JNull])

\* Texts handed to from_json: whole events, one without its amounts, one
\* that is not JSON.
UnitJson ==
  {[json_ok |-> TRUE, value |-> json_of_args(a)] : a \in UnitArgs}
  \cup {[json_ok |-> TRUE,
         value |-> JObj([version |-> JStr(<<"v", "2">>),
                         transaction_hash |-> JStr(HashA),
                         pool_address |-> JStr(PoolAddr),
                         user_address |-> JStr(SenderAddr)])],
        [json_ok |-> FALSE, value |-> JNull]}

\* Values handed to the enrichment setters.
UnitPoolInfos ==
  {[address |-> a, token0 |-> Token0Addr, token1 |-> Token1Addr,
    fee_tier |-> None, liquidity |-> None, volume_24h |-> None,
    fees_24h |-> None, apy |-> None, created_at |-> None] :
     a \in {PoolAddr, HashB}}
UnitEnrichedData ==
  [token_metadata |-> <<>>, market_data |-> None, risk_metrics |-> None]

\* Readings of the clock (Utc::now()).
Clock == 1..MaxNow

\* A batch of whole V3 records, of any signs and notations of their amounts,
\* and what an attempt of the V3 poller makes of it.
UnitBatches ==
  {[kind |-> "batch", source |-> "V3", batch |-> b, attempt |-> None] :
     b \in SeqsUpTo({raw_of_v3_event(e) : e \in UnitV3Events}, MaxBatch) \ {<<>>}}

\* A fresh MetricsCollector and the calls made on it.
UnitMetrics == [kind |-> "metrics", m |-> new_metrics, calls |-> <<>>, read |-> None]

\* The counts passed to record_events_processed and record_events_dropped.
ProcessedCounts == {0, 2, 10}
DroppedCounts == {0, 2, 101}

InitUnit ==
  /\ scenario = [name |-> "unit", rich |-> "none", stalled |-> "none"]
  /\ config = DefaultConfig(2)
  /\ is_running = FALSE
  /\ orch_metrics = new_metrics
  /\ starts = 0
  /\ pc = [t \in Tasks |-> "unspawned"]
  /\ attempts = [t \in Tasks |-> 0]
  /\ delay = [t \in Tasks |-> 0]
  /\ events = [t \in Tasks |-> <<>>]
  /\ metrics = [t \in Tasks |-> new_metrics]
  /\ hist = [t \in Tasks |-> NoHistory]
  /\ unit \in {UnitBackoff(cfg) : cfg \in UnitBackoffConfigs}
               \cup {UnitBuilder}
               \cup UnitRecords
               \cup {UnitEvent}
               \cup {UnitMetrics}
               \cup UnitBatches
               \cup {UnitHealth(v2, v3, r) :
                       v2 \in BOOLEAN, v3 \in BOOLEAN, r \in SinkAnswers}

PipelineUnchanged ==
  UNCHANGED <<scenario, config, is_running, orch_metrics, starts, pc,
              attempts, delay, events, metrics, hist>>

\* A call of next_delay.
NextDelay ==
  /\ unit.kind = "backoff"
  /\ unit.calls < MaxCalls
  /\ \E r \in {next_delay(unit.b)} :
       unit' = [unit EXCEPT !.b = r.b,
                            !.returned = Append(unit.returned, r.ret),
                            !.first_epoch =
                              IF unit.resets = 0
                              THEN Append(unit.first_epoch, r.ret)
                              ELSE unit.first_epoch,
                            !.calls = unit.calls + 1]
  /\ PipelineUnchanged

\* A call of reset.
Reset ==
  /\ unit.kind = "backoff"
  /\ unit.resets < MaxResets
  /\ unit' = [unit EXCEPT !.b = reset(unit.b),
                          !.returned = <<>>,
                          !.resets = unit.resets + 1]
  /\ PipelineUnchanged

\* The builder's setters, each called at most once before build.
Setting(field) ==
  /\ unit.kind = "builder"
  /\ unit.result.t = "none"
  /\ unit.b[field].t = "none"

SetVersion ==
  /\ Setting("version")
  /\ \E x \in Sources : unit' = [unit EXCEPT !.b = set_version(unit.b, x)]
  /\ PipelineUnchanged

SetTransactionHash ==
  /\ Setting("transaction_hash")
  /\ \E x \in UnitHashes :
       unit' = [unit EXCEPT !.b = set_transaction_hash(unit.b, x)]
  /\ PipelineUnchanged

SetPoolAddress ==
  /\ Setting("pool_address")
  /\ \E x \in UnitAddresses("c") :
       unit' = [unit EXCEPT !.b = set_pool_address(unit.b, x)]
  /\ PipelineUnchanged

SetTokenIn ==
  /\ Setting("token_in")
  /\ \E x \in UnitTokens("a") :
       unit' = [unit EXCEPT !.b = set_token_in(unit.b, x)]
  /\ PipelineUnchanged

SetTokenOut ==
  /\ Setting("token_out")
  /\ \E x \in UnitTokens("b") :
       unit' = [unit EXCEPT !.b = set_token_out(unit.b, x)]
  /\ PipelineUnchanged

SetAmountIn ==
  /\ Setting("amount_in")
  /\ \E x \in UnitAmountsIn :
       unit' = [unit EXCEPT !.b = set_amount_in(unit.b, x)]
  /\ PipelineUnchanged

SetAmountOut ==
  /\ Setting("amount_out")
  /\ \E x \in UnitAmountsOut :
       unit' = [unit EXCEPT !.b = set_amount_out(unit.b, x)]
  /\ PipelineUnchanged

SetUserAddress ==
  /\ Setting("user_address")
  /\ \E x \in UnitAddresses("f") :
       unit' = [unit EXCEPT !.b = set_user_address(unit.b, x)]
  /\ PipelineUnchanged

\* build(self): consumes the builder.
Build ==
  /\ unit.kind = "builder"
  /\ unit.result.t = "none"
  /\ unit' = [unit EXCEPT !.result = Some(build(unit.b))]
  /\ PipelineUnchanged

\* The event build returned at `now` is serialized as publish_event does, and
\* the text is handed to SwapEvent::from_json.
FromJsonOfSerialized ==
  /\ unit.kind = "builder"
  /\ unit.result.t = "some"
  /\ unit.result.v.ok
  /\ unit.reread.t = "none"
  /\ \E now \in Clock :
       unit' = [unit EXCEPT !.reread =
                  Some(from_json(TRUE, serialize(with_timestamp(unit.result.v.v,
                                                                now))))]
  /\ PipelineUnchanged

\* One more call on the collector, remembered in the order of the calls.
Recorded(op, count, m) ==
  /\ unit.kind = "metrics"
  /\ Len(unit.calls) < MaxRecordings
  /\ unit' = [unit EXCEPT !.m = m,
                          !.calls = Append(@, [op |-> op, count |-> count])]
  /\ PipelineUnchanged

\* A call of record_events_processed.
RecordEventsProcessed ==
  \E count \in ProcessedCounts :
    Recorded("processed", count, record_events_processed(unit.m, count))

\* A call of record_events_dropped.
RecordEventsDropped ==
  \E count \in DroppedCounts :
    Recorded("dropped", count, record_events_dropped(unit.m, count))

\* A call of record_error.
RecordError == Recorded("error", 1, record_error(unit.m))

\* A call of get_metrics.
GetMetrics ==
  /\ unit.kind = "metrics"
  /\ unit' = [unit EXCEPT !.read = Some([after |-> Len(unit.calls),
                                         metrics |-> get_metrics(unit.m)])]
  /\ PipelineUnchanged

\* collect_v3_events on a batch the upstream answered: the loop over the
\* records and the events handed to publish_batch.
CollectEvents ==
  /\ unit.kind = "batch"
  /\ unit.attempt.t = "none"
  /\ unit' = [unit EXCEPT !.attempt =
                 Some(after_query(unit.source, Some(unit.batch), TRUE))]
  /\ PipelineUnchanged

\* A call of health_check.
HealthCheck ==
  /\ unit.kind = "health"
  /\ unit.result.t = "none"
  /\ unit' = [unit EXCEPT !.result =
                 Some(health_check(unit.v2_ok, unit.v3_ok, unit.redis_answer))]
  /\ PipelineUnchanged

\* The poller's parse function applied to the record, a first and a second
\* time; each event built carries the time it was built at.
ParseSwapEvent ==
  /\ unit.kind = "record"
  /\ unit.reparsed.t = "none"
  /\ \E now \in Clock :
       \E r \in {stamped(parse_swap_event(unit.source, unit.raw), now)} :
         unit' = IF unit.parsed.t = "none"
                 THEN [unit EXCEPT !.parsed = Some(r)]
                 ELSE [unit EXCEPT !.reparsed = Some(r)]
  /\ PipelineUnchanged

\* SwapEvent::from_v2_subgraph on the typed form of the record, with the pair
\* id and the sender as pool and user address.
FromV2Subgraph ==
  /\ unit.kind = "record"
  /\ unit.source = "V2"
  /\ unit.typed.t = "some"
  /\ unit.converted.t = "none"
  /\ \E now \in Clock :
       unit' = [unit EXCEPT !.converted =
                  Some(stamped(from_v2_subgraph(unit.typed.v,
                                                unit.typed.v.pair.id,
                                                unit.typed.v.sender), now))]
  /\ PipelineUnchanged

\* SwapEvent::from_v3_subgraph, likewise.
FromV3Subgraph ==
  /\ unit.kind = "record"
  /\ unit.source = "V3"
  /\ unit.typed.t = "some"
  /\ unit.converted.t = "none"
  /\ \E now \in Clock :
       unit' = [unit EXCEPT !.converted =
                  Some(stamped(from_v3_subgraph(unit.typed.v,
                                                unit.typed.v.pool.id,
                                                unit.typed.v.sender), now))]
  /\ PipelineUnchanged

\* A constructor returned r: the event, if any, is the one to enrich.
Made(r) ==
  unit' = [unit EXCEPT !.made = Some(r),
                       !.event = IF r.ok THEN Some(r.v) ELSE None]

\* SwapEvent::new
New ==
  /\ unit.kind = "event"
  /\ unit.made.t = "none"
  /\ \E a \in UnitArgs, now \in Clock :
       Made(Ok(with_timestamp(
                 new(a.version, a.transaction_hash, a.pool_address,
                     a.token_in, a.token_out, a.amount_in, a.amount_out,
                     a.user_address), now)))
  /\ PipelineUnchanged

\* SwapEvent::from_raw_data
FromRawData ==
  /\ unit.kind = "event"
  /\ unit.made.t = "none"
  /\ \E a \in UnitArgs, now \in Clock :
       Made(stamped(from_raw_data(a.version, a.transaction_hash,
                                  a.pool_address, a.token_in.address,
                                  a.token_in.symbol, a.token_in.name,
                                  a.token_in.decimals, a.token_out.address,
                                  a.token_out.symbol, a.token_out.name,
                                  a.token_out.decimals, a.amount_in,
                                  a.amount_out, a.user_address), now))
  /\ PipelineUnchanged

\* SwapEvent::from_json
FromJson ==
  /\ unit.kind = "event"
  /\ unit.made.t = "none"
  /\ \E j \in UnitJson, now \in Clock :
       Made(stamped(from_json(j.json_ok, j.value), now))
  /\ PipelineUnchanged

\* The enrichment setters, on an event that was constructed.
Enriching == unit.kind = "event" /\ unit.event.t = "some"

AddPoolInfo ==
  /\ Enriching
  /\ \E x \in UnitPoolInfos :
       unit' = [unit EXCEPT !.event = Some(add_pool_info(unit.event.v, x))]
  /\ PipelineUnchanged

AddEnrichedData ==
  /\ Enriching
  /\ unit' = [unit EXCEPT !.event =
                Some(add_enriched_data(unit.event.v, UnitEnrichedData))]
  /\ PipelineUnchanged

SetBlockInfo ==
  /\ Enriching
  /\ \E now \in Clock :
       unit' = [unit EXCEPT !.event = Some(set_block_info(unit.event.v, 17, now))]
  /\ PipelineUnchanged

SetGasInfo ==
  /\ Enriching
  /\ unit' = [unit EXCEPT !.event =
                Some(set_gas_info(unit.event.v, 21000, <<"9">>, 3))]
  /\ PipelineUnchanged

SetUsdAmounts ==
  /\ Enriching
  /\ unit' = [unit EXCEPT !.event = Some(set_usd_amounts(unit.event.v, 10, 11))]
  /\ PipelineUnchanged

SetFeeInfo ==
  /\ Enriching
  /\ unit' = [unit EXCEPT !.event = Some(set_fee_info(unit.event.v, <<"3">>, 1))]
  /\ PipelineUnchanged

UnitNext ==
  \/ FromJsonOfSerialized
  \/ CollectEvents
  \/ RecordEventsProcessed
  \/ RecordEventsDropped
  \/ RecordError
  \/ GetMetrics
  \/ NextDelay
  \/ Reset
  \/ SetVersion
  \/ SetTransactionHash
  \/ SetPoolAddress
  \/ SetTokenIn
  \/ SetTokenOut
  \/ SetAmountIn
  \/ SetAmountOut
  \/ SetUserAddress
  \/ Build
  \/ HealthCheck
  \/ ParseSwapEvent
  \/ FromV2Subgraph
  \/ FromV3Subgraph
  \/ New
  \/ FromRawData
  \/ FromJson
  \/ AddPoolInfo
  \/ AddEnrichedData
  \/ SetBlockInfo
  \/ SetGasInfo
  \/ SetUsdAmounts
  \/ SetFeeInfo

UnitSpec == InitUnit /\ [][UnitNext]_vars

\* ---------------------------------------------------------------- properties

Last(s) == s[Len(s)]

\* The errors an attempt can end with: those of the query and of publish_batch.
BatchErrorKinds ==
  {"Http", "Parsing", "GraphQL", "Serialization", "RedisTimeout", "RedisPublish"}

\* A raw record the source's parse function turns into an event.
is_valid(source, rec) == parse_swap_event(source, rec).ok

valid_records(source, batch) ==
  SelectSeq(batch, LAMBDA rec : is_valid(source, rec))

invalid_count(source, batch) == Len(batch) - Len(valid_records(source, batch))

\* The record_error calls the loop made on the batch an answer carried.
dropped_in(source, raw) ==
  IF raw.t = "some" THEN invalid_count(source, raw.v) ELSE 0

\* C1: in one retried cycle with max_attempts = M, the attempts made never
\* exceed M; every attempt but the last one failed; the cycle reports failure
\* only after exactly M failed attempts, and it reports success with the first
\* attempt that succeeds, which is then the last attempt of the cycle.
C1_ExactlyMaxAttempts ==
  \A t \in Tasks :
    /\ Len(hist[t].outcomes) <= config.max_attempts
    /\ \A i \in 1..(Len(hist[t].outcomes) - 1) : hist[t].outcomes[i] = "err"
    /\ (hist[t].result = "err") =>
         /\ Len(hist[t].outcomes) = config.max_attempts
         /\ Last(hist[t].outcomes) = "err"
    /\ (hist[t].result = "ok") =>
         /\ hist[t].outcomes # <<>>
         /\ Last(hist[t].outcomes) = "ok"
    /\ (hist[t].result = "none" /\ hist[t].outcomes # <<>>) =>
         /\ Last(hist[t].outcomes) = "err"
         /\ Len(hist[t].outcomes) < config.max_attempts
    /\ (hist[t].result # "none") <=> (pc[t] = "tick_wait" /\ hist[t].cycles > 0)

\* A cycle of MaxAttempts attempts whose first attempt failed in the sink and
\* that ended in permanent failure.
C1_Witness ==
  \E t \in Tasks :
    /\ config.max_attempts = MaxAttempts
    /\ hist[t].result = "err"
    /\ hist[t].first_error \in {"RedisPublish", "RedisTimeout"}
    /\ Len(hist[t].outcomes) = MaxAttempts

\* C2: the events handed to the sink were fetched and normalized in the
\* attempt that publishes them, and no events are kept from one attempt to the
\* next: a retry starts with a new fetch.
C2_RefetchBeforePublish ==
  \A t \in Tasks :
    /\ (pc[t] = "publishing") =>
         /\ hist[t].fetched_try = Len(hist[t].outcomes) + 1
         /\ events[t] # <<>>
    /\ (pc[t] # "publishing") => events[t] = <<>>

\* A second attempt at the sink, after the first attempt's publish failed.
C2_Witness ==
  \E t \in Tasks :
    /\ pc[t] = "publishing"
    /\ hist[t].outcomes = <<"err">>
    /\ hist[t].last_error \in {"RedisPublish", "RedisTimeout"}
    /\ hist[t].fetched_try = 2

\* C3: an attempt fails only with an error of the query or of publish_batch.
\* Once the answer carried a batch, the attempt fails only when publish_batch
\* fails on the events of its valid records, a batch without any valid record
\* ends the attempt with success, and the events on their way to the sink are
\* those of all the valid records of the batch.
C3_RecordFailureNeverFailsAttempt ==
  \A t \in Tasks :
    /\ hist[t].last_error \in BatchErrorKinds \cup {""}
    /\ (hist[t].raw.t = "some" /\ hist[t].fetched_try = 0) =>
         /\ hist[t].outcomes # <<>>
         /\ (Last(hist[t].outcomes) = "err") =>
              /\ hist[t].last_error = "Serialization"
              /\ valid_records(t[1], hist[t].raw.v) # <<>>
         /\ (valid_records(t[1], hist[t].raw.v) = <<>>) =>
              Last(hist[t].outcomes) = "ok"
    /\ (pc[t] = "publishing" /\ hist[t].raw.t = "some") =>
         Len(events[t]) = Len(valid_records(t[1], hist[t].raw.v))

\* A first attempt on its way to the sink although a record of its batch
\* failed to parse.
C3_Witness ==
  \E t \in Tasks :
    /\ pc[t] = "publishing"
    /\ hist[t].outcomes = <<>>
    /\ hist[t].raw.t = "some"
    /\ invalid_count(t[1], hist[t].raw.v) >= 1

\* What an attempt makes of a batch: one event per valid record, in the order
\* of the valid records and the same as without the invalid ones, and one
\* counted error per invalid record.
batch_outcome_ok(source, batch, produced, reported) ==
  /\ Len(produced) = Len(batch) - invalid_count(source, batch)
  /\ reported = invalid_count(source, batch)
  /\ \A i \in 1..Len(produced) :
       Ok(produced[i]) = parse_swap_event(source, valid_records(source, batch)[i])
  /\ produced = collect_swaps(source, valid_records(source, batch)).events

\* C4 (amended): for a fetched batch of N records of which k are rejected by
\* the source's parse function (Solana checks included), the attempt produces
\* exactly N-k events, one per valid record and in their order, the same as
\* if the invalid records were absent, and counts exactly k errors.
C4_ValidRecordsYieldEvents ==
  [][\A t \in Tasks :
       (/\ pc[t] = "fetching"
        /\ pc'[t] \in {"publishing", "tick_wait"}
        /\ hist'[t].raw.t = "some"
        /\ hist'[t].result # "err")
       => batch_outcome_ok(t[1], hist'[t].raw.v, events'[t],
                           metrics'[t].errors_total - metrics[t].errors_total)]_vars

\* A batch of two records whose first is invalid and whose second gave the one
\* event on its way to the sink.
C4_Witness ==
  \E t \in Tasks :
    /\ pc[t] = "publishing"
    /\ hist[t].raw.t = "some"
    /\ Len(hist[t].raw.v) = 2
    /\ ~is_valid(t[1], hist[t].raw.v[1])
    /\ Len(events[t]) = 1
    /\ metrics[t].errors_total = 1

\* A record invalid in the sense the claim lists: its pair / pool, token0 or
\* token1 is missing, or the builder rejects it.
listed_invalid(source, rec) ==
  LET pool == Get(rec, IF source = "V2" THEN "pair" ELSE "pool")
      token0 == IF pool.t = "some" THEN Get(pool.v, "token0") ELSE None
      token1 == IF pool.t = "some" THEN Get(pool.v, "token1") ELSE None
  IN \/ pool.t = "none"
     \/ token0.t = "none"
     \/ token1.t = "none"
     \/ ~build_swap_event(source, rec, pool.v, token0.v, token1.v,
                          IF source = "V2" THEN "amount0_in" ELSE "amount0",
                          IF source = "V2" THEN "amount1_out" ELSE "amount1").ok

\* C4 as stated: the events of an attempt are as many as the records of the
\* batch that are not invalid in the listed sense.
C4_ListedInvalidOnly ==
  \A t \in Tasks :
    (pc[t] = "publishing" /\ hist[t].raw.t = "some") =>
      Len(events[t]) =
        Len(SelectSeq(hist[t].raw.v, LAMBDA rec : ~listed_invalid(t[1], rec)))

\* C5 as stated: the delay slept after the k-th failed attempt is the delay
\* ExponentialBackoff::next_delay returns for attempt k.
C5_DelayIsBackoffDelay ==
  \A t \in Tasks :
    (pc[t] = "sleeping") =>
      Some(delay[t] * NanosPerMilli) = backoff_next_delay(config, attempts[t])

\* C6: a spawned poller that has begun c cycles eventually begins cycle c+1,
\* however cycle c ends.
C6_NewCycleAlwaysBegins ==
  \A t \in Tasks : \A c \in 0..(MaxCycles - 1) :
    (pc[t] # "unspawned" /\ hist[t].cycles = c) ~> (hist[t].cycles = c + 1)

\* A poller fetching in a later cycle after a cycle that exhausted its attempts.
C6_Witness ==
  \E t \in Tasks :
    /\ hist[t].cycles >= 2
    /\ pc[t] = "fetching"
    /\ metrics[t].errors_total >= 1

\* C7 as stated: the counters are one set, so what a poller's handle shows is
\* what the orchestrator's collector shows.
C7_CountersShared ==
  \A t \in Tasks : (pc[t] # "unspawned") => metrics[t] = orch_metrics

\* What the failure of an attempt leads to: a backoff sleep while attempts
\* remain, else one counted error and the wait for the next tick.
escalates(t, kind, attempts_made, pc_after, result_after, counted) ==
  /\ kind \in BatchErrorKinds
  /\ IF attempts_made < config.max_attempts
     THEN pc_after = "sleeping" /\ result_after = "none" /\ counted = 0
     ELSE pc_after = "tick_wait" /\ result_after = "err" /\ counted = 1

\* C8: every failed attempt fails with a batch-level error; it is followed by
\* a backoff sleep and a retry while fewer than max_attempts attempts were
\* made, and after the last one the poller counts exactly one error (beside
\* those of dropped records) and waits for its next tick.
C8_BatchErrorsEscalate ==
  [][\A t \in Tasks :
       (/\ Len(hist'[t].outcomes) = Len(hist[t].outcomes) + 1
        /\ Last(hist'[t].outcomes) = "err")
       => escalates(t, hist'[t].last_error, Len(hist'[t].outcomes), pc'[t],
                    hist'[t].result,
                    metrics'[t].errors_total - metrics[t].errors_total
                      - dropped_in(t[1], hist'[t].raw))]_vars

\* A cycle that failed first on a GraphQL error array and last on event
\* serialization, counted and followed by the wait for the next tick.
C8_Witness ==
  \E t \in Tasks :
    /\ hist[t].result = "err"
    /\ hist[t].first_error = "GraphQL"
    /\ hist[t].last_error = "Serialization"
    /\ pc[t] = "tick_wait"
    /\ metrics[t].errors_total >= 1

\* C9 as stated: at most one poller task per source, whatever was called.
C9_OnePollerPerSource ==
  \A s \in Sources :
    Cardinality({t \in Tasks : t[1] = s /\ pc[t] # "unspawned"}) <= 1

\* C10: whatever the task of the other source does, or fails to do, a spawned
\* poller that has begun c cycles eventually begins cycle c+1, and its last
\* cycle eventually ends.
C10_PollersIndependent ==
  \A t \in Tasks :
    /\ \A c \in 0..(MaxCycles - 1) :
         (scenario.stalled # t[1] /\ pc[t] # "unspawned" /\ hist[t].cycles = c)
           ~> (hist[t].cycles = c + 1)
    /\ (scenario.stalled # t[1] /\ hist[t].cycles = MaxCycles)
         ~> (hist[t].result # "none")

\* The other source finished its second cycle while the stalled source's
\* first query is still unanswered.
C10_Witness ==
  \E t \in Tasks, u \in Tasks :
    /\ scenario.stalled = u[1]
    /\ t[1] # u[1]
    /\ pc[u] = "fetching"
    /\ hist[u].cycles = 1
    /\ hist[u].outcomes = <<>>
    /\ hist[t].cycles = 2
    /\ hist[t].result = "ok"

\* The poller tasks spawned so far.
Spawned == {t \in Tasks : pc[t] # "unspawned"}

\* C11: no step taken while the collector is running spawns a poller task or
\* counts as a start, so start_collecting called on a running collector
\* changes nothing; each start that did spawn, spawned one task per source.
C11_StartIdempotent ==
  [][/\ Cardinality(Spawned) = 2 * starts
     /\ is_running =>
          /\ {t \in Tasks : pc'[t] # "unspawned"} = Spawned
          /\ starts' = starts]_vars

\* A running collector whose two pollers are at work: start_collecting is
\* enabled here and leaves the state as it is.
C11_Witness ==
  /\ is_running
  /\ starts = 1
  /\ Cardinality(Spawned) = 2
  /\ \E t \in Spawned : pc[t] = "publishing"
  /\ ENABLED StartCollecting

\* C12: a step that clears the running flag changes nothing else; with the
\* flag cleared every spawned poller still ends the cycle it is in and still
\* begins the next cycle.
C12_ShutdownOnlyFlipsFlag ==
  /\ [][(is_running /\ ~is_running') =>
          UNCHANGED <<orch_metrics, starts, pc, attempts, delay, events,
                      metrics, hist>>]_vars
  /\ \A t \in Tasks :
       /\ (~is_running /\ pc[t] \in {"fetching", "publishing", "sleeping"})
            ~> (hist[t].result # "none")
       /\ \A c \in 0..(MaxCycles - 1) :
            (~is_running /\ pc[t] # "unspawned" /\ hist[t].cycles = c)
              ~> (hist[t].cycles = c + 1)

\* A cycle begun after the collector was stopped has fetched and published.
C12_Witness ==
  \E t \in Tasks :
    /\ ~is_running
    /\ hist[t].after_stop
    /\ hist[t].result = "ok"
    /\ metrics[t].events_processed >= 1

\* C13: health_check returns true only if both subgraph probes and the Redis
\* probe succeeded.
C13_HealthyOnlyIfProbesOk ==
  (unit.kind = "health" /\ unit.result = Some(TRUE)) =>
    (unit.v2_ok /\ unit.v3_ok /\ unit.redis_answer = "ok")

\* v nanoseconds is initial_delay when n = 0 and
\* min(initial_delay * multiplier^n, max_delay) when n >= 1, the product
\* compared and equated without dividing.
is_claimed_delay(cfg, n, v) ==
  IF n = 0 THEN v = cfg.initial_delay_ms * NanosPerMilli
  ELSE IF cfg.initial_delay_ms * Pow(cfg.backoff_multiplier.num, n)
            > cfg.max_delay_ms * Pow(cfg.backoff_multiplier.den, n)
       THEN v = cfg.max_delay_ms * NanosPerMilli
       ELSE v * Pow(cfg.backoff_multiplier.den, n)
              = cfg.initial_delay_ms * Pow(cfg.backoff_multiplier.num, n)
                  * NanosPerMilli

Millis(seq) == [i \in 1..Len(seq) |-> Some(seq[i] * NanosPerMilli)]

is_prefix(s, t) == Len(s) <= Len(t) /\ s = SubSeq(t, 1, Len(s))

\* C14: the call of next_delay made at attempt n < max_attempts (n calls since
\* construction or the last reset) returns initial_delay for n = 0 and
\* min(initial_delay * multiplier^n, max_delay) for n >= 1; (100ms, 1000ms,
\* 2.0, 3) yields 100ms, 200ms, 400ms and (1000ms, 2000ms, 3.0, 5) yields
\* 1000ms, 2000ms, 2000ms.
C14_NextDelayFormula ==
  unit.kind = "backoff" =>
    /\ \A i \in 1..Len(unit.returned) :
         i <= unit.b.cfg.max_attempts =>
           /\ unit.returned[i].t = "some"
           /\ is_claimed_delay(unit.b.cfg, i - 1, unit.returned[i].v)
    /\ (unit.b.cfg.initial_delay_ms = 100 /\ unit.b.cfg.max_attempts = 3) =>
         is_prefix(SubSeq(unit.returned, 1, Min(3, Len(unit.returned))),
                   Millis(<<100, 200, 400>>))
    /\ unit.b.cfg.initial_delay_ms = 1000 =>
         is_prefix(SubSeq(unit.returned, 1, Min(3, Len(unit.returned))),
                   Millis(<<1000, 2000, 2000>>))

\* After a reset, the third call on (1000ms, 2000ms, 3.0, 5) returned the cap.
C14_Witness ==
  /\ unit.kind = "backoff"
  /\ unit.b.cfg.initial_delay_ms = 1000
  /\ unit.resets = 1
  /\ Len(unit.returned) = 3
  /\ unit.returned[3] = Some(2000 * NanosPerMilli)

\* C15: next_delay returns a delay on exactly the first max_attempts calls
\* after construction or reset and None on every later call until reset;
\* the counter stops at max_attempts and exhausted() is true from then on.
C15_ExhaustionAfterMaxAttempts ==
  unit.kind = "backoff" =>
    /\ \A i \in 1..Len(unit.returned) :
         (unit.returned[i].t = "some") <=> (i <= unit.b.cfg.max_attempts)
    /\ current_attempt(unit.b)
         = Min(Len(unit.returned), unit.b.cfg.max_attempts)
    /\ exhausted(unit.b) <=> (Len(unit.returned) >= unit.b.cfg.max_attempts)

\* Three delays, then exhaustion signalled twice.
C15_Witness ==
  /\ unit.kind = "backoff"
  /\ unit.b.cfg.max_attempts = 3
  /\ Len(unit.returned) = 5
  /\ unit.returned[3].t = "some"
  /\ unit.returned[4] = None
  /\ unit.returned[5] = None
  /\ exhausted(unit.b)

\* What the first n calls of next_delay return on the controller b.
RECURSIVE delays_from(_, _)
delays_from(b, n) ==
  IF n = 0 THEN <<>>
  ELSE <<next_delay(b).ret>> \o delays_from(next_delay(b).b, n - 1)

\* C16: reset sets current_attempt to 0 from any state, exhausted() is then
\* false when max_attempts >= 1, and what next_delay returns after a reset is
\* what it returns on a freshly constructed controller of the same
\* configuration (and what it returned before the first reset).
C16_ResetRestoresFresh ==
  /\ [][(unit.kind = "backoff" /\ unit'.resets = unit.resets + 1) =>
          /\ current_attempt(unit'.b) = 0
          /\ unit'.b = backoff_new(unit.b.cfg)
          /\ unit.b.cfg.max_attempts >= 1 => ~exhausted(unit'.b)]_vars
  /\ [](unit.kind = "backoff" =>
          /\ unit.returned
               = delays_from(backoff_new(unit.b.cfg), Len(unit.returned))
          /\ \A i \in 1..Min(Len(unit.returned), Len(unit.first_epoch)) :
               unit.returned[i] = unit.first_epoch[i])

\* A controller reset when exhausted has returned two delays again.
C16_Witness ==
  /\ unit.kind = "backoff"
  /\ unit.resets >= 1
  /\ Len(unit.first_epoch) > unit.b.cfg.max_attempts
  /\ Last(unit.first_epoch) = None
  /\ Len(unit.returned) = 2
  /\ unit.returned[2].t = "some"

\* The event build returned, when it returned one.
Built == unit.kind = "builder" /\ unit.result.t = "some" /\ unit.result.v.ok
built_event == unit.result.v.v

\* The event built from the same builder with another version and hash.
rebuilt(version, hash) ==
  build(set_transaction_hash(set_version(unit.b, version), hash))

\* C17 as stated: the id of every built event is the version written V2 or V3,
\* an underscore and the transaction hash; V2 with 0xabc gives "V2_0xabc".
C17_IdUppercase ==
  Built =>
    built_event.id
      = (IF built_event.version = "V2" THEN <<"V", "2">> ELSE <<"V", "3">>)
          \o <<"_">> \o built_event.transaction_hash

\* C17, amended: the id of every built event is the version as Display
\* prints it (v2 or v3), an underscore and the transaction hash, and two
\* events with the same id have the same version and hash; V2 with 0xabc
\* gives "v2_0xabc".
C17_IdLowercase ==
  Built =>
    /\ built_event.id
         = (IF built_event.version = "V2" THEN <<"v", "2">> ELSE <<"v", "3">>)
             \o <<"_">> \o built_event.transaction_hash
    /\ (built_event.version = "V2"
          /\ built_event.transaction_hash = <<"0", "x", "a", "b", "c">>) =>
         built_event.id = <<"v", "2", "_", "0", "x", "a", "b", "c">>
    /\ \A version \in Sources, hash \in UnitHashes \ {<<>>} :
         rebuilt(version, hash).v.id = built_event.id =>
           /\ version = built_event.version
           /\ hash = built_event.transaction_hash

\* A V2 event with hash 0xabc was built.
C17_Witness ==
  /\ Built
  /\ built_event.version = "V2"
  /\ built_event.transaction_hash = <<"0", "x", "a", "b", "c">>

\* build was called on the builder unit.b.
BuildCalled == unit.kind = "builder" /\ unit.result.t = "some"

unset_or_empty(field) == field.t = "none" \/ field.v = <<>>

unset_or_empty_address(token) == token.t = "none" \/ token.v.address = <<>>

\* C18: build on a builder whose transaction hash is unset or empty returns
\* an error and no event, whatever the other fields are; so does build when
\* the version is unset or when the pool address, the user address, a token
\* or its address, or an amount is unset or empty.
C18_RequiredFieldsRejected ==
  BuildCalled =>
    /\ unset_or_empty(unit.b.transaction_hash) => ~unit.result.v.ok
    /\ (\/ unit.b.version.t = "none"
        \/ unset_or_empty(unit.b.pool_address)
        \/ unset_or_empty(unit.b.user_address)
        \/ unset_or_empty_address(unit.b.token_in)
        \/ unset_or_empty_address(unit.b.token_out)
        \/ unset_or_empty(unit.b.amount_in)
        \/ unset_or_empty(unit.b.amount_out)) => ~unit.result.v.ok

\* build was refused for an empty transaction hash, every other field passing.
C18_Witness ==
  /\ BuildCalled
  /\ unit.b.transaction_hash = Some(<<>>)
  /\ build(set_transaction_hash(unit.b, <<"0", "x", "a", "b">>)).ok
  /\ unit.result.v = Err("Transaction hash cannot be empty")

digits_and_dots(s) ==
  \A i \in 1..Len(s) :
    s[i] \in {"0", "1", "2", "3", "4", "5", "6", "7", "8", "9", "."}

\* C19: build returns an error and no event when amount_in or amount_out
\* holds a character other than an ASCII digit or '.', as "12.5e9" does; a
\* built event's amounts are non-empty and made of digits and '.' only.
C19_AmountsDigitsAndDots ==
  BuildCalled =>
    /\ (unit.b.amount_in.t = "some" /\ ~digits_and_dots(unit.b.amount_in.v)) =>
         ~unit.result.v.ok
    /\ (unit.b.amount_out.t = "some" /\ ~digits_and_dots(unit.b.amount_out.v)) =>
         ~unit.result.v.ok
    /\ unit.b.amount_in = Some(<<"1", "2", ".", "5", "e", "9">>) =>
         ~unit.result.v.ok
    /\ unit.result.v.ok =>
         /\ built_event.amount_in # <<>>
         /\ built_event.amount_out # <<>>
         /\ digits_and_dots(built_event.amount_in)
         /\ digits_and_dots(built_event.amount_out)

\* build was refused for the amount "12.5e9", every other field passing.
C19_Witness ==
  /\ BuildCalled
  /\ unit.b.amount_in = Some(<<"1", "2", ".", "5", "e", "9">>)
  /\ build(set_amount_in(unit.b, <<"1", ".", "5">>)).ok
  /\ unit.result.v = Err("Amount in must be a valid numeric value")

\* C20: build returns an error, and no event, whenever the pool address, the
\* user address or a token address does not start with "0x".
C20_PrefixEnforcedAtBuild ==
  Built =>
    /\ starts_with(built_event.pool_address, <<"0", "x">>)
    /\ starts_with(built_event.user_address, <<"0", "x">>)
    /\ starts_with(built_event.token_in.address, <<"0", "x">>)
    /\ starts_with(built_event.token_out.address, <<"0", "x">>)

\* The four fields of an event that say what was swapped for what.
sides(event) ==
  <<event.token_in, event.amount_in, event.token_out, event.amount_out>>

\* C21: for a V2 record with one non-zero amount-in and one non-zero
\* amount-out, the event the V2 poller builds has the token and amount of the
\* non-zero amount-in side as token_in and amount_in and those of the non-zero
\* amount-out side as token_out and amount_out, and from_v2_subgraph gives the
\* same four fields for the record.
C21_NonZeroSideIsInput ==
  (/\ unit.kind = "record"
   /\ unit.source = "V2"
   /\ unit.typed.t = "some"
   /\ unit.parsed.t = "some"
   /\ unit.parsed.v.ok) =>
    /\ (unit.typed.v.amount0_in # <<"0">> /\ unit.typed.v.amount1_in = <<"0">>) =>
         /\ unit.parsed.v.v.token_in = token_of(unit.typed.v.pair.token0)
         /\ unit.parsed.v.v.amount_in = unit.typed.v.amount0_in
    /\ (unit.typed.v.amount1_in # <<"0">> /\ unit.typed.v.amount0_in = <<"0">>) =>
         /\ unit.parsed.v.v.token_in = token_of(unit.typed.v.pair.token1)
         /\ unit.parsed.v.v.amount_in = unit.typed.v.amount1_in
    /\ (unit.typed.v.amount0_out # <<"0">> /\ unit.typed.v.amount1_out = <<"0">>) =>
         /\ unit.parsed.v.v.token_out = token_of(unit.typed.v.pair.token0)
         /\ unit.parsed.v.v.amount_out = unit.typed.v.amount0_out
    /\ (unit.typed.v.amount1_out # <<"0">> /\ unit.typed.v.amount0_out = <<"0">>) =>
         /\ unit.parsed.v.v.token_out = token_of(unit.typed.v.pair.token1)
         /\ unit.parsed.v.v.amount_out = unit.typed.v.amount1_out
    /\ (unit.converted.t = "some" /\ unit.converted.v.ok) =>
         sides(unit.parsed.v.v) = sides(unit.converted.v.v)

\* The build-time invariants of an event.
build_invariants(event) ==
  /\ event.transaction_hash # <<>>
  /\ event.pool_address # <<>>
  /\ event.user_address # <<>>
  /\ event.token_in.address # <<>>
  /\ event.token_out.address # <<>>
  /\ event.amount_in # <<>> /\ digits_and_dots(event.amount_in)
  /\ event.amount_out # <<>> /\ digits_and_dots(event.amount_out)

\* The events the constructors have returned in this state.
produced ==
  {r.v.v : r \in {o \in (CASE unit.kind = "event" -> {unit.made}
                           [] unit.kind = "builder" -> {unit.result}
                           [] unit.kind = "record" ->
                                {unit.parsed, unit.reparsed, unit.converted}
                           [] OTHER -> {}) : o.t = "some" /\ o.v.ok}}

\* C22: every SwapEvent a public constructor returns (new, build,
\* from_v2_subgraph, from_v3_subgraph, from_raw_data, from_json, and the
\* pollers' parse functions) satisfies the builder's build-time invariants.
C22_EveryEventValid == \A event \in produced : build_invariants(event)

\* The identity fields of an event.
identity(event) ==
  <<event.id, event.version, event.transaction_hash, event.pool_address,
    event.user_address, event.token_in, event.token_out, event.amount_in,
    event.amount_out>>

\* C23: add_pool_info, add_enriched_data, set_block_info, set_gas_info,
\* set_usd_amounts and set_fee_info, in any order and any number of times,
\* leave id, version, transaction_hash, pool_address, user_address, token_in,
\* token_out, amount_in and amount_out as the constructor set them.
C23_EnrichmentKeepsIdentity ==
  /\ [](Enriching => identity(unit.event.v) = identity(unit.made.v.v))
  /\ [][(Enriching /\ unit'.event.t = "some") =>
          identity(unit'.event.v) = identity(unit.event.v)]_vars

\* All six setters were applied, add_pool_info with the information of another
\* pool than the event's.
C23_Witness ==
  /\ Enriching
  /\ unit.event.v.pool_info.t = "some"
  /\ unit.event.v.pool_info.v.address # unit.event.v.pool_address
  /\ unit.event.v.enriched_data.t = "some"
  /\ unit.event.v.block_number = 17
  /\ unit.event.v.gas_used.t = "some"
  /\ unit.event.v.amount_in_usd.t = "some"
  /\ unit.event.v.fee_amount.t = "some"

\* An event without its time of construction.
untimed(event) == [event EXCEPT !.timestamp = 0]

Fetched(t) == pc[t] = "fetching" /\ pc'[t] # "fetching"

\* C25: a response whose errors array is non-empty fails the attempt with a
\* GraphQL error even when it carries data, and nothing of it is normalized,
\* handed to the sink or counted as processed; a response whose errors are
\* absent or empty never fails with a GraphQL error.
C25_ErrorsFailTheQuery ==
  [][\A t \in Tasks :
       Fetched(t) =>
         /\ hist'[t].input.errors =>
              /\ Len(hist'[t].outcomes) = Len(hist[t].outcomes) + 1
              /\ hist'[t].outcomes[Len(hist'[t].outcomes)] = "err"
              /\ hist'[t].last_error = "GraphQL"
              /\ hist'[t].raw = None
              /\ events'[t] = <<>>
              /\ pc'[t] # "publishing"
              /\ metrics'[t].events_processed = metrics[t].events_processed
         /\ ~hist'[t].input.errors =>
              ~ /\ Len(hist'[t].outcomes) = Len(hist[t].outcomes) + 1
                /\ hist'[t].outcomes[Len(hist'[t].outcomes)] = "err"
                /\ hist'[t].last_error = "GraphQL"]_vars

\* A response with data and errors has failed an attempt.
C25_Witness ==
  \E t \in Tasks :
    /\ hist[t].input.errors
    /\ hist[t].last_error = "GraphQL"
    /\ hist[t].outcomes # <<>>
    /\ hist[t].outcomes[Len(hist[t].outcomes)] = "err"

\* The step in which the sink answers the pipeline of task t.
Answered(t) == pc[t] = "publishing" /\ pc'[t] # "publishing"

\* The newest outcome of task t's cycle, once the step is taken.
newest_outcome(t) ==
  IF Len(hist'[t].outcomes) = Len(hist[t].outcomes) + 1
  THEN hist'[t].outcomes[Len(hist'[t].outcomes)] ELSE "none"

\* C26: what is handed to the sink is one pipeline holding the events of all
\* the valid records of the batch in batch order, or nothing; an attempt whose
\* events do not serialize fails before anything is handed over; and whenever
\* publish_batch fails, by serialization or by the sink's answer, the attempt
\* fails and nothing is counted as processed, while a sink that accepts the
\* pipeline has the whole batch counted.
C26_PublishAllOrNothing ==
  /\ \A t \in Tasks :
       IF pc[t] = "publishing"
       THEN /\ hist[t].raw.t = "some"
            /\ events[t] # <<>>
            /\ events[t] = collect_swaps(t[1], valid_records(t[1], hist[t].raw.v)).events
       ELSE events[t] = <<>>
  /\ [][\A t \in Tasks :
          /\ (Fetched(t) /\ newest_outcome(t) = "err"
                /\ hist'[t].last_error = "Serialization") =>
               /\ pc'[t] # "publishing"
               /\ metrics'[t].events_processed = metrics[t].events_processed
          /\ Answered(t) =>
               IF hist'[t].input.sink = "ok"
               THEN /\ newest_outcome(t) = "ok"
                    /\ metrics'[t].events_processed =
                         metrics[t].events_processed + Len(events[t])
               ELSE /\ newest_outcome(t) = "err"
                    /\ hist'[t].last_error \in {"RedisTimeout", "RedisPublish"}
                    /\ metrics'[t].events_processed = metrics[t].events_processed]_vars

\* A cycle whose first attempt failed on a batch that did not serialize and
\* whose second attempt had its pipeline time out at the sink.
C26_Witness ==
  \E t \in Tasks :
    /\ hist[t].first_error = "Serialization"
    /\ hist[t].input.sink = "timeout"
    /\ hist[t].last_error = "RedisTimeout"
    /\ metrics[t].events_processed = 0

\* C27: the cycles a poller has started never outnumber the ticks of its
\* interval that have elapsed, every elapsed tick leads to a cycle being
\* started, however late, and once time stands still the cycles started equal
\* the ticks elapsed.
C27_LateTicksNotSkipped ==
  /\ [](\A t \in Tasks : pc[t] # "unspawned" => hist[t].cycles <= unit.due)
  /\ \A n \in 1..(MaxTime + 1) :
       (unit.due >= n) ~> (\A t \in Tasks : pc[t] # "unspawned" => hist[t].cycles >= n)
  /\ <>[](\A t \in Tasks : pc[t] # "unspawned" => hist[t].cycles = unit.due)

\* A poller that was handed a tick after the deadline of the following one and
\* has caught up with three elapsed ticks.
C27_Witness ==
  \E t \in Tasks :
    /\ unit.late[t]
    /\ unit.due >= 3
    /\ hist[t].cycles = unit.due

\* The period the claim gives a configuration.
claimed_period(cfg) ==
  IF cfg.polling_interval_seconds = 0 THEN 1 ELSE cfg.polling_interval_seconds

\* C28: the pollers' timers have the period max(polling_interval_seconds, 1),
\* which is 1 for a configured interval of 0 and never 0; after n seconds
\* 1 + n / period ticks have elapsed and no poller has started more cycles.
C28_PeriodAtLeastOne ==
  starts > 0 =>
    /\ unit.period = claimed_period(config)
    /\ unit.period >= 1
    /\ unit.due = 1 + unit.now \div claimed_period(config)
    /\ \A t \in Tasks : hist[t].cycles <= 1 + unit.now \div claimed_period(config)

\* Configured with an interval of 0, a poller has started its third cycle two
\* seconds after it was spawned.
C28_Witness ==
  /\ config.polling_interval_seconds = 0
  /\ unit.period = 1
  /\ unit.now = 2
  /\ \E t \in Tasks : hist[t].cycles = 3

RECURSIVE sum_of_counts(_, _)
\* The sum of the counts of the calls of one operation.
sum_of_counts(calls, op) ==
  IF calls = <<>> THEN 0
  ELSE (IF calls[1].op = op THEN calls[1].count ELSE 0)
         + sum_of_counts(Tail(calls), op)

\* C29 as stated: whatever was called on a collector, events_processed_total
\* read from it is the sum of the counts passed to record_events_processed
\* and errors_total the number of calls of record_error; calls of
\* record_events_dropped change neither.
C29_TotalsMatchCalls ==
  (unit.kind = "metrics" /\ unit.read.t = "some"
     /\ unit.read.v.after = Len(unit.calls)) =>
    /\ unit.read.v.metrics.events_processed_total =
         sum_of_counts(unit.calls, "processed")
    /\ unit.read.v.metrics.errors_total = sum_of_counts(unit.calls, "error")

\* The totals match the calls as long as no call dropped more than 100 events.
C29_TotalsMatchSmallDrops ==
  (unit.kind = "metrics" /\ unit.read.t = "some"
     /\ unit.read.v.after = Len(unit.calls)
     /\ \A i \in 1..Len(unit.calls) :
          unit.calls[i].op = "dropped" => unit.calls[i].count <= 100) =>
    /\ unit.read.v.metrics.events_processed_total =
         sum_of_counts(unit.calls, "processed")
    /\ unit.read.v.metrics.errors_total = sum_of_counts(unit.calls, "error")

\* processed(10), dropped(2), error() read as 10 and 1.
C29_Example ==
  /\ unit.kind = "metrics"
  /\ unit.calls = <<[op |-> "processed", count |-> 10],
                    [op |-> "dropped", count |-> 2],
                    [op |-> "error", count |-> 1]>>
  /\ unit.read = Some([after |-> 3,
                       metrics |-> [events_processed_total |-> 10,
                                    errors_total |-> 1]])

\* An amount with a sign or an exponent.
signed_or_scientific(s) == \E i \in 1..Len(s) : s[i] \in {"-", "+", "e", "E"}

\* A raw V3 record one of whose amounts has a sign or an exponent.
excluded_v3(rec) ==
  \/ signed_or_scientific(rec.f.amount0.s)
  \/ signed_or_scientific(rec.f.amount1.s)

\* C30: of a batch of otherwise whole V3 records, every record whose amount0
\* or amount1 carries a sign or is in scientific notation is rejected and
\* counted as one error, the events handed to the sink are those of the other
\* records in their order, with amounts of digits and '.' only, and a batch
\* of such records alone hands nothing to the sink.
C30_SignedV3AmountsRejected ==
  (unit.kind = "batch" /\ unit.attempt.t = "some") =>
    LET a == unit.attempt.v
        kept == SelectSeq(unit.batch, LAMBDA rec : ~excluded_v3(rec))
    IN /\ a.errors = Len(unit.batch) - Len(kept)
       /\ Len(a.events) = Len(kept)
       /\ \A i \in 1..Len(a.events) :
            /\ a.events[i].amount_in = kept[i].f.amount0.s
            /\ a.events[i].amount_out = kept[i].f.amount1.s
            /\ digits_and_dots(a.events[i].amount_in)
            /\ digits_and_dots(a.events[i].amount_out)
       /\ a.status = (IF kept = <<>> THEN "ok" ELSE "publishing")

\* A batch whose first record has a negative amount0 and whose second record
\* gave the one event handed to the sink.
C30_Witness ==
  /\ unit.kind = "batch"
  /\ unit.attempt.t = "some"
  /\ Len(unit.batch) = 2
  /\ unit.batch[1].f.amount0.s = <<"-", "5">>
  /\ unit.attempt.v.status = "publishing"
  /\ Len(unit.attempt.v.events) = 1
  /\ unit.attempt.v.errors = 1

\* The id the claim gives an event of a source.
claimed_id(source, hash) ==
  (IF source = "V2" THEN <<"v", "2">> ELSE <<"v", "3">>) \o <<"_">> \o hash

\* An event as build leaves it, for the poller of the given source.
well_formed(source, e) ==
  /\ e.transaction_hash # <<>>
  /\ e.pool_address # <<>>
  /\ e.user_address # <<>>
  /\ e.token_in.address # <<>>
  /\ e.token_out.address # <<>>
  /\ e.amount_in # <<>> /\ digits_and_dots(e.amount_in)
  /\ e.amount_out # <<>> /\ digits_and_dots(e.amount_out)
  /\ e.version = source
  /\ e.id = claimed_id(source, e.transaction_hash)

\* C31: every event on its way to the sink is the event a successful build
\* returned for a record of the batch of the same attempt: its hash, pool,
\* user and token addresses are non-empty, its amounts are digits and '.'
\* only, its version is that of the poller's source and its id is the
\* version, "_" and the transaction hash.
C31_PublishedEventsWellFormed ==
  \A t \in Tasks :
    pc[t] = "publishing" =>
      /\ hist[t].raw.t = "some"
      /\ \A i \in 1..Len(events[t]) :
           /\ well_formed(t[1], events[t][i])
           /\ \E j \in 1..Len(hist[t].raw.v) :
                parse_swap_event(t[1], hist[t].raw.v[j]) = Ok(events[t][i])

\* A V3 poller handing over the one event of a batch whose other record has
\* no transaction id.
C31_Witness ==
  \E t \in Tasks :
    /\ t[1] = "V3"
    /\ pc[t] = "publishing"
    /\ Len(events[t]) = 1
    /\ hist[t].raw.t = "some"
    /\ Len(hist[t].raw.v) = 2
    /\ \E j \in 1..2 : str_or(hist[t].raw.v[j], "id", <<>>) = <<>>

\* The step in which a cycle of task t ends.
CycleEnds(t) == hist[t].result = "none" /\ hist'[t].result # "none"

\* C32 as stated: with an upstream that answers the same batch to every
\* query, a cycle over a batch with k invalid records has added to the error
\* counter exactly k, and one more when it exhausted its attempts.
C32_InvalidRecordsCountedOnce ==
  \A t \in Tasks :
    (t[1] = scenario.rich /\ hist[t].cycles = 1 /\ hist[t].result # "none") =>
      metrics[t].errors_total =
        invalid_count(t[1], scenario.batch)
          + (IF hist[t].result = "err" THEN 1 ELSE 0)

\* What the cycle adds: k for every attempt that fetched the batch, and one
\* more when it exhausted its attempts.
C32_InvalidRecordsCountedPerAttempt ==
  \A t \in Tasks :
    (t[1] = scenario.rich /\ hist[t].cycles = 1 /\ hist[t].result # "none") =>
      metrics[t].errors_total =
        invalid_count(t[1], scenario.batch) * Len(hist[t].outcomes)
          + (IF hist[t].result = "err" THEN 1 ELSE 0)

\* C33: the processed-events counter of a poller changes only in the step in
\* which the sink accepts its non-empty pipeline, and then by the number of
\* events in it; no other step of any task, and no failed attempt, changes it.
\* With one cycle made, a counter above zero means the sink accepted a batch.
C33_ProcessedOnlyWhenAccepted ==
  /\ [][\A t \in Tasks :
          IF Answered(t) /\ hist'[t].input.sink = "ok"
          THEN /\ events[t] # <<>>
               /\ metrics'[t].events_processed =
                    metrics[t].events_processed + Len(events[t])
          ELSE metrics'[t].events_processed = metrics[t].events_processed]_vars
  /\ [](\A t \in Tasks :
          /\ metrics[t].events_processed > 0 =>
               hist[t].input.sink = "ok" /\ hist[t].result = "ok"
          /\ hist[t].result = "err" => metrics[t].events_processed = 0)

\* A poller whose second attempt had its batch of two events accepted, after
\* a first attempt that failed at the sink.
C33_Witness ==
  \E t \in Tasks :
    /\ hist[t].outcomes = <<"err", "ok">>
    /\ hist[t].first_error \in {"RedisTimeout", "RedisPublish"}
    /\ hist[t].input.sink = "ok"
    /\ metrics[t].events_processed = 2

\* C34: an attempt whose query was answered without errors but without a
\* usable batch (no data, no "swaps", "swaps" not an array, an empty array, or
\* no valid record) ends the cycle with success: nothing is handed to the
\* sink, nothing is counted as processed and no retry is scheduled. What is
\* handed to the sink is never empty.
C34_NoBatchIsSuccess ==
  /\ [][\A t \in Tasks :
          (/\ Fetched(t)
           /\ hist'[t].input.received
           /\ ~hist'[t].input.errors
           /\ \/ hist'[t].raw.t = "none"
              \/ valid_records(t[1], hist'[t].raw.v) = <<>>) =>
            /\ newest_outcome(t) = "ok"
            /\ hist'[t].result = "ok"
            /\ pc'[t] = "tick_wait"
            /\ events'[t] = <<>>
            /\ attempts'[t] = 0
            /\ metrics'[t].events_processed = metrics[t].events_processed]_vars
  /\ [](\A t \in Tasks : pc[t] = "publishing" => events[t] # <<>>)

\* A cycle that ended with success on a response without data.
C34_Witness ==
  \E t \in Tasks :
    /\ hist[t].input.received
    /\ ~hist[t].input.errors
    /\ hist[t].raw.t = "none"
    /\ hist[t].outcomes = <<"ok">>
    /\ hist[t].input.sink = "none"
    /\ metrics[t].events_processed = 0

\* A cycle that ended with success on a batch of two records, both invalid.
C34_AllInvalid ==
  \E t \in Tasks :
    /\ hist[t].raw.t = "some"
    /\ Len(hist[t].raw.v) = 2
    /\ valid_records(t[1], hist[t].raw.v) = <<>>
    /\ hist[t].outcomes = <<"ok">>
    /\ metrics[t].errors_total = 2

\* A cycle that ended with success on an empty array.
C34_EmptyArray ==
  \E t \in Tasks :
    /\ hist[t].raw = Some(<<>>)
    /\ hist[t].outcomes = <<"ok">>

\* C35 as stated: every delay next_delay returned, the one of attempt 0
\* included, is at most max_delay.
C35_DelayAtMostCap ==
  unit.kind = "backoff" =>
    \A i \in 1..Len(unit.returned) :
      unit.returned[i].t = "some" =>
        unit.returned[i].v <= unit.b.cfg.max_delay_ms * NanosPerMilli

\* The delays of the attempts after attempt 0 are at most max_delay.
C35_LaterDelaysAtMostCap ==
  unit.kind = "backoff" =>
    \A i \in 2..Len(unit.returned) :
      unit.returned[i].t = "some" =>
        unit.returned[i].v <= unit.b.cfg.max_delay_ms * NanosPerMilli

\* C36: whatever sequence of next_delay and reset calls was made, the counter
\* is between 0 and max_attempts; exhausted() holds exactly when the next
\* call of next_delay returns None; a call that returns a delay adds one to
\* the counter and a call that returns None leaves it as it is.
C36_CounterWithinBounds ==
  /\ [](unit.kind = "backoff" =>
          /\ 0 <= current_attempt(unit.b)
          /\ current_attempt(unit.b) <= unit.b.cfg.max_attempts)
  /\ [][(unit.kind = "backoff" /\ unit'.calls = unit.calls + 1) =>
          LET ret == unit'.returned[Len(unit'.returned)]
          IN /\ exhausted(unit.b) <=> (ret = None)
             /\ ret # None =>
                  current_attempt(unit'.b) = current_attempt(unit.b) + 1
             /\ ret = None =>
                  current_attempt(unit'.b) = current_attempt(unit.b)]_vars

\* An exhausted controller that was reset before, called once more for None.
C36_Witness ==
  /\ unit.kind = "backoff"
  /\ unit.resets >= 1
  /\ unit.b.cfg.max_attempts = 2
  /\ Len(unit.returned) = 3
  /\ unit.returned[3] = None
  /\ current_attempt(unit.b) = 2

\* All eight fields of the builder are set.
AllSet(b) ==
  \A f \in {"version", "transaction_hash", "pool_address", "token_in",
            "token_out", "amount_in", "amount_out", "user_address"} :
    b[f].t = "some"

\* C37: in every builder state, is_ready() implies that build() succeeds,
\* that is, a state build() rejects has at least one validate() finding; and
\* validate_event_data returning Ok on field values implies that build() on
\* the same values yields an event.
C37_ReadyBuilderBuilds ==
  unit.kind = "builder" =>
    /\ is_ready(unit.b) => build(unit.b).ok
    /\ ~build(unit.b).ok => validate(unit.b) # <<>>
    /\ (unit.result.t = "some" /\ is_ready(unit.b)) => unit.result.v.ok
    /\ AllSet(unit.b) =>
         (validate_event_data(unit.b.version.v, unit.b.transaction_hash.v,
                              unit.b.pool_address.v, unit.b.token_in.v,
                              unit.b.token_out.v, unit.b.amount_in.v,
                              unit.b.amount_out.v, unit.b.user_address.v).ok
            => build(unit.b).ok)

\* build() was called on a ready builder and returned an event.
C37_Witness ==
  /\ unit.kind = "builder"
  /\ is_ready(unit.b)
  /\ unit.result.t = "some"
  /\ unit.result.v.ok
  /\ unit.result.v.v.amount_in = <<"1", ".", "5">>

\* The pool of a typed record: pair for V2, pool for V3.
pool_of(source, typed) == IF source = "V2" THEN typed.pair ELSE typed.pool

\* C38: for every typed record for which from_v2_subgraph or from_v3_subgraph
\* returns an event, token_in and token_out are opposite sides of the pool:
\* one is token0 and the other is token1.
C38_OppositeSides ==
  (/\ unit.kind = "record"
   /\ unit.converted.t = "some"
   /\ unit.converted.v.ok) =>
    LET pool == pool_of(unit.source, unit.typed.v)
        event == unit.converted.v.v
    IN \/ /\ event.token_in = token_of(pool.token0)
          /\ event.token_out = token_of(pool.token1)
       \/ /\ event.token_in = token_of(pool.token1)
          /\ event.token_out = token_of(pool.token0)

\* The V2 half of C38.
C38_OppositeSidesV2 == (unit.kind = "record" /\ unit.source = "V2") => C38_OppositeSides

\* The V3 half of C38.
C38_OppositeSidesV3 == (unit.kind = "record" /\ unit.source = "V3") => C38_OppositeSides

\* What holds of both constructors: each of the two tokens of the event is
\* one of the two tokens of the pool.
C38_TokensOfThePool ==
  (/\ unit.kind = "record"
   /\ unit.converted.t = "some"
   /\ unit.converted.v.ok) =>
    LET pool == pool_of(unit.source, unit.typed.v)
        event == unit.converted.v.v
    IN /\ event.token_in \in {token_of(pool.token0), token_of(pool.token1)}
       /\ event.token_out \in {token_of(pool.token0), token_of(pool.token1)}

\* The fields from_json reads are those of the event e.
same_fields(e, r) ==
  /\ r.id = e.id
  /\ r.version = e.version
  /\ r.transaction_hash = e.transaction_hash
  /\ r.pool_address = e.pool_address
  /\ r.user_address = e.user_address
  /\ r.token_in = e.token_in
  /\ r.token_out = e.token_out
  /\ r.amount_in = e.amount_in
  /\ r.amount_out = e.amount_out

\* C39: for every event e returned by build(), from_json applied to the JSON
\* serialization of e succeeds and returns an event with the same id, version,
\* transaction_hash, pool_address, user_address, tokens and amounts as e.
C39_FromJsonReadsSerialization ==
  (unit.kind = "builder" /\ unit.reread.t = "some") =>
    /\ unit.reread.v.ok
    /\ same_fields(unit.result.v.v, unit.reread.v.v)

\* What the code does: from_json rejects the serialization of every event
\* build returned, for its version.
C39_SerializedVersionRejected ==
  (unit.kind = "builder" /\ unit.reread.t = "some") =>
    unit.reread.v = Err("Invalid or missing version")

\* With the version member written as Display writes it, the same text is
\* read back with the same fields.
C39_DisplayVersionReadBack ==
  (unit.kind = "builder" /\ unit.result.t = "some" /\ unit.result.v.ok) =>
    LET e == unit.result.v.v
        wire == serialize(with_timestamp(e, 1))
        text == JObj([wire.f EXCEPT !.version = serialize_version_lowercase(e.version)])
        r == from_json(TRUE, text)
    IN r.ok /\ same_fields(e, r.v)

\* C40: stop_collecting and shutdown on a collector that is not running
\* return and change no state; the running flag is set by the steps of
\* start_collecting that change state and by no other step, and cleared by
\* the steps of stop_collecting and shutdown that change state and by no
\* other step, so status().is_running is true exactly when the most recent
\* state-changing call was start_collecting.
C40_RunningIffStartedLast ==
  /\ [](~is_running => (ENABLED StopCollecting /\ ENABLED Shutdown))
  /\ [][/\ (~is_running /\ (StopCollecting \/ Shutdown)) => UNCHANGED vars
        /\ (starts' # starts) => (~is_running /\ is_running')
        /\ (~is_running /\ is_running') => (starts' = starts + 1)
        /\ (is_running /\ ~is_running') =>
             (starts' = starts /\ (StopCollecting \/ Shutdown))]_vars

\* A collector started, stopped, started again and stopped again, whose
\* pollers are still at work: stop_collecting and shutdown return here.
C40_Witness ==
  /\ ~is_running
  /\ starts = 2
  /\ \E t \in Spawned : pc[t] = "publishing"
  /\ ENABLED StopCollecting
  /\ ENABLED Shutdown

====
